---------------------------- MODULE Spec2Model ----------------------------
(***************************************************************************)
(* A model of the chatbot-templates support-bot core: the chunker          *)
(* (ingest.py), the tenant configuration resolver and the support-bot      *)
(* orchestrator (support_bot.py), the structured retriever (retriever.py)  *)
(* and the analytics recorder (analytics.py).                              *)
(*                                                                         *)
(* Python strings whose characters matter (document text, messages,        *)
(* contents, source names) are sequences of one-character strings.         *)
(* Offsets into a text are Python's 0-based offsets.                       *)
(***************************************************************************)
EXTENDS Integers, Sequences, FiniteSets, TLC

VARIABLES
    \* ---- chunk_text (ingest.py) ----
    text,            \* the text argument
    chunk_size,      \* the chunk_size argument
    chunk_overlap,   \* the chunk_overlap argument
    start,           \* the local `start`
    chunks,          \* the local `chunks` (the returned list once cpc = "returned")
    cpc,             \* position in chunk_text: "call", "loop", "returned"
    visited,         \* history: the start offset of every iteration begun so far
    covered,         \* history: the offsets of text lying inside an appended chunk
    \* ---- tenant configuration (support_bot.py) ----
    tenantFile,      \* the content of the file at TENANT_CONFIG_PATH
    TENANT_OVERRIDES, \* the module-level override mapping
    loadRaised,      \* whether _load_tenant_overrides raised at import
    rpc,             \* "import" before the module is loaded, "ready", "resolved"
    resolveArg,      \* the tenant_id of the last _resolve_config call
    resolveResult,   \* what that call returned or raised
    \* ---- run_support_bot_flow (support_bot.py) and its collaborators ----
    args,            \* the arguments user_id, message, tenant_id of the call
    fpc,             \* position in the flow: "START", "CONFIG_RESOLVED", "RETRIEVED",
                     \* "GENERATED", "FALLBACK", "RECORDED", "DONE", "FAILED"
    config,          \* the local `config`
    docs,            \* the local `docs`
    context_text,    \* the local `context_text`
    sources,         \* the local `sources`
    fallback_used,   \* the local `fallback_used`
    answer,          \* the local `answer`
    flowResult,      \* what the call returned or raised
    generateCalls,   \* history: calls of LLMClient.generate made by this call
    generateArgs,    \* history: the arguments of the last generate call
    generateOutcome, \* history: what that generate call returned or raised
    llmClient,       \* llm_client._llm_client: "None" or "LLMClient"
    store,           \* the vector store: collection name -> chunks, nearest first
    metricsFile,     \* the file at ANALYTICS_FILE
    recordCalls,     \* history: calls of record_support_interaction made by this call
    metricsBefore,   \* history: metricsFile when the call began
    calls,           \* history: calls of run_support_bot_flow begun
    \* ---- ingest_documents (ingest.py) and the collection it writes ----
    listing,         \* the files under the docs directory, in listing order
    settings,        \* chunk_size and chunk_overlap of the runs
    documents,       \* the list load_documents_from_directory returned
    ipc,             \* position in ingest.py: "start", "loaded", "chunking", "batches",
                     \* "returned", "raised", "hung"
    reset,           \* the reset argument of the run
    docIndex,        \* how many documents the loop of line 152 has processed
    all_ids,         \* the local `all_ids`
    all_documents,   \* the local `all_documents`
    all_metadatas,   \* the local `all_metadatas`
    batchStart,      \* the loop variable `i` of line 180
    chroma,          \* the collection: id -> (document, metadata)
    existingIds,     \* how collection.add treats an id the collection holds
    ingestResult,    \* what the run returned or raised
    attempts,        \* history: the collection.add calls of the run
    chromaAtStart,   \* history: the collection when the run began writing
    runLog,          \* history: one record per finished run
    \* ---- the retriever functions (retriever.py) called directly ----
    rtpc,            \* "idle", "context" after retrieve_relevant_context, "documents"
                     \* after retrieve_relevant_documents on the same arguments
    retrieveArgs,    \* top_k, min_score, collection_name, and where the store fails
    contextResult,   \* what retrieve_relevant_context handed back
    documentsResult, \* what retrieve_relevant_documents handed back
    \* ---- record_support_interaction (analytics.py) called directly ----
    analyticsFile,   \* the file at ANALYTICS_FILE
    fileBefore,      \* history: the file when the last call began
    recordArgs,      \* message, fallback_used, tenant_id, response_time_ms of the last call
    recordOutcome,   \* what the last call returned or raised
    recordCount,     \* calls made, -1 when the recorder is not exercised
    \* ---- categorize_intent (analytics.py) called directly ----
    intentMessage,   \* the message argument
    intentResult,    \* the returned intent
    cipc,            \* "off", "call", "returned"
    \* ---- two concurrent calls of record_support_interaction ----
    raceFile,        \* the file at ANALYTICS_FILE
    racePc,          \* per caller: "off", "call", "loaded", "writing", "done"
    raceArgs,        \* per caller: the arguments of its call
    raceLoaded,      \* per caller: the file as _load_metrics read it
    racePending,     \* per caller: the document handed to _save_metrics
    raceEarly,       \* history, per caller: it loaded before any caller began to save
    raceSaving,      \* history: some caller has begun to save
    raceLast,        \* history: the caller that finished its save last, 0 if none
    \* ---- get_collection and reset_collection (retriever.py) in two threads ----
    cachedCollection,  \* the module global _collection: "None" or the name of the
                       \* collection the cached handle is bound to
    handlePc,          \* per thread: "off", "ready", "hit", "miss", "assigned", "done"
    handleCall,        \* per thread: the function called and its collection_name
    handleResult,      \* per thread: the name of the collection of the returned handle
    \* ---- LLMClient.generate (llm_client.py) ----
    gpc,             \* "off", "idle", "attempting", "returned", "raised"
    generateCall,    \* the provider of the client and the arguments of the call
    attemptLog,      \* history: how each attempt of the call ended, in order
    generateResult,  \* what generate handed its caller
    \* ---- the HTTP handlers (server.py) ----
    spc,             \* "off", "idle", "validated" (run_support_bot_flow to be called),
                     \* "responded"
    httpRequest,     \* the endpoint and the body of the request being served
    httpResponse,    \* the status, detail and body answered
    handlerEffects,  \* history: what the handler of /chat or /chat-with-retrieval did
    callsBefore,     \* history: run_support_bot_flow calls made when the request came in
    requestsServed   \* requests answered

chunkVars == <<text, chunk_size, chunk_overlap, start, chunks, cpc, visited, covered>>

tenantVars == <<tenantFile, TENANT_OVERRIDES, loadRaised, rpc, resolveArg, resolveResult>>

flowVars == <<args, fpc, config, docs, context_text, sources, fallback_used, answer, flowResult,
              generateCalls, generateArgs, generateOutcome, llmClient, store, metricsFile,
              recordCalls, metricsBefore, calls>>

ingestVars == <<listing, settings, documents, ipc, reset, docIndex, all_ids, all_documents,
                all_metadatas, batchStart, chroma, existingIds, ingestResult, attempts,
                chromaAtStart, runLog>>

retrieveVars == <<rtpc, retrieveArgs, contextResult, documentsResult>>

recordVars == <<analyticsFile, fileBefore, recordArgs, recordOutcome, recordCount>>

intentVars == <<intentMessage, intentResult, cipc>>

raceVars == <<raceFile, racePc, raceArgs, raceLoaded, racePending, raceEarly, raceSaving, raceLast>>

handleVars == <<cachedCollection, handlePc, handleCall, handleResult>>

generateVars == <<gpc, generateCall, attemptLog, generateResult>>

serverVars == <<spc, httpRequest, httpResponse, handlerEffects, callsBefore, requestsServed>>

vars == <<chunkVars, tenantVars, flowVars, ingestVars, retrieveVars, recordVars, intentVars,
          raceVars, handleVars, generateVars, serverVars>>

\* what the actions of one component leave alone
notChunkVars == <<tenantVars, flowVars, ingestVars, retrieveVars, recordVars, intentVars, raceVars, handleVars, generateVars, serverVars>>
notTenantVars == <<chunkVars, flowVars, ingestVars, retrieveVars, recordVars, intentVars, raceVars, handleVars, generateVars, serverVars>>
notFlowVars == <<chunkVars, tenantVars, ingestVars, retrieveVars, recordVars, intentVars, raceVars, handleVars, generateVars, serverVars>>
notIngestVars == <<chunkVars, tenantVars, flowVars, retrieveVars, recordVars, intentVars, raceVars, handleVars, generateVars, serverVars>>
notRetrieveVars == <<chunkVars, tenantVars, flowVars, ingestVars, recordVars, intentVars, raceVars, handleVars, generateVars, serverVars>>
notRecordVars == <<chunkVars, tenantVars, flowVars, ingestVars, retrieveVars, intentVars, raceVars, handleVars, generateVars, serverVars>>
notIntentVars == <<chunkVars, tenantVars, flowVars, ingestVars, retrieveVars, recordVars, raceVars, handleVars, generateVars, serverVars>>
notRaceVars == <<chunkVars, tenantVars, flowVars, ingestVars, retrieveVars, recordVars, intentVars, handleVars, generateVars, serverVars>>
notHandleVars == <<chunkVars, tenantVars, flowVars, ingestVars, retrieveVars, recordVars, intentVars, raceVars, generateVars, serverVars>>
notGenerateVars == <<chunkVars, tenantVars, flowVars, ingestVars, retrieveVars, recordVars, intentVars, raceVars, handleVars, serverVars>>
\* what the handlers of /chat and /chat-with-retrieval leave alone: all but
\* the server's variables and the LLM client singleton
notChatVars == <<chunkVars, tenantVars, ingestVars, retrieveVars, recordVars, intentVars, raceVars,
                 handleVars, generateVars, args, fpc, config, docs, context_text, sources,
                 fallback_used, answer, flowResult, generateCalls, generateArgs, generateOutcome,
                 store, metricsFile, recordCalls, metricsBefore, calls>>

-----------------------------------------------------------------------------
(* Bounds of the model *)

\* a text is a concatenation of at most MaxTokens tokens
MaxTokens == 4
\* chunk_size ranges over 0..MaxChunkSize
MaxChunkSize == 7
\* chunk_overlap ranges over 0..MaxOverlap
MaxOverlap == 2
\* the carve loop is followed for at most MaxIters iterations
MaxIters == 8
\* the tenant-override file holds at most MaxEntries records
MaxEntries == 1
\* at most MaxCalls calls of run_support_bot_flow
MaxCalls == 2
\* at most MaxRuns runs of ingest_documents
MaxRuns == 2
\* a long document has LongLen characters
LongLen == 36
\* the retriever is asked for at most MaxTopK results
MaxTopK == 4

-----------------------------------------------------------------------------
(* Python string primitives *)

MaxOf(S) == CHOOSE x \in S : \A y \in S : y <= x
MinOf(S) == CHOOSE x \in S : \A y \in S : x <= y

\* the larger of two integers (Python's max)
Max2(a, b) == IF a >= b THEN a ELSE b

\* str.isspace for one character
IsSpace(c) == c \in {" ", "\n", "\t", "\r"}

\* how Python clamps a slice bound i against a string of length n
PyIndex(i, n) == IF i < 0 THEN Max2(i + n, 0) ELSE IF i > n THEN n ELSE i

\* s[i:j]
Slice(s, i, j) ==
    LET a == PyIndex(i, Len(s))
        b == PyIndex(j, Len(s))
    IN  IF a >= b THEN <<>> ELSE SubSeq(s, a + 1, b)

\* s.rfind(sub, i, j): the highest offset p with s[p:p+len(sub)] = sub lying
\* wholly inside s[i:j], or -1
RFind(s, sub, i, j) ==
    LET a == PyIndex(i, Len(s))
        b == PyIndex(j, Len(s))
        hits == {p \in a..(b - Len(sub)) : SubSeq(s, p + 1, p + Len(sub)) = sub}
    IN  IF hits = {} THEN -1 ELSE MaxOf(hits)

\* s.strip()
Strip(s) ==
    LET keep == {i \in 1..Len(s) : ~IsSpace(s[i])}
    IN  IF keep = {} THEN <<>> ELSE SubSeq(s, MinOf(keep), MaxOf(keep))

RECURSIVE Concat(_)
\* "".join(parts)
Concat(parts) == IF parts = <<>> THEN <<>> ELSE Head(parts) \o Concat(Tail(parts))

-----------------------------------------------------------------------------
(* chunk_text: inputs *)

ParagraphBreak == <<"\n", "\n">>
SentenceDot == <<".", " ">>
SentenceBang == <<"!", " ">>
SentenceQuestion == <<"?", " ">>

\* the pieces texts are built from: a one-letter word, a four-letter word,
\* a paragraph break and two kinds of sentence end
Tokens == {<<"a">>, <<"w", "x", "y", "z">>, ParagraphBreak, SentenceDot, SentenceQuestion}

TokenSeqs == UNION {[1..n -> Tokens] : n \in 0..MaxTokens}

Texts == {Concat(ts) : ts \in TokenSeqs}

-----------------------------------------------------------------------------
(* chunk_text: one iteration of the carve loop *)

\* `end` after the boundary search
CarveEnd(t, s, size) ==
    LET end0 == s + size
        paragraph_break == RFind(t, ParagraphBreak, s, end0)
        sentence_break ==
            Max2(RFind(t, SentenceDot, s, end0),
                 Max2(RFind(t, SentenceBang, s, end0),
                      RFind(t, SentenceQuestion, s, end0)))
    IN  IF end0 < Len(t)
        THEN IF paragraph_break # -1 /\ paragraph_break > s
             THEN paragraph_break
             ELSE IF sentence_break # -1 /\ sentence_break > s
                  THEN sentence_break + 1
                  ELSE end0
        ELSE end0

\* the slice taken as it is, with its whitespace
ChunkAt_NoStrip(t, s, e) == Slice(t, s, e)

\* chunk = text[start:end].strip()
ChunkAt(t, s, e) == Strip(Slice(t, s, e))

\* start = end - chunk_overlap if end < len(text) else end
NextStart(t, e, overlap) == IF e < Len(t) THEN e - overlap ELSE e

\* the offsets of t that the chunk carved from t[s:e] holds after strip()
ChunkOffsets(t, s, e) ==
    LET a == PyIndex(s, Len(t))
        b == PyIndex(e, Len(t))
        keep == {i \in a..(b - 1) : ~IsSpace(t[i + 1])}
    IN  IF a >= b \/ keep = {} THEN {} ELSE MinOf(keep)..MaxOf(keep)

\* the early-return test with the comparison made strict
FitsInOneChunk_Strict(t, size) == Len(t) < size

\* if len(text) <= chunk_size: return [text]
FitsInOneChunk(t, size) == Len(t) <= size

-----------------------------------------------------------------------------
(* chunk_text: the state machine *)

ChunkInit ==
    /\ text \in Texts
    /\ chunk_size \in 0..MaxChunkSize
    /\ chunk_overlap \in 0..MaxOverlap
    /\ start = 0
    /\ chunks = <<>>
    /\ cpc = "call"
    /\ visited = <<>>
    /\ covered = {}

\* lines 74-75: the text fits, it is returned whole
ChunkWhole ==
    /\ cpc = "call"
    /\ FitsInOneChunk(text, chunk_size)
    /\ chunks' = <<text>>
    /\ cpc' = "returned"
    /\ UNCHANGED <<text, chunk_size, chunk_overlap, start, visited, covered>>
    /\ UNCHANGED notChunkVars

\* lines 77-78: the carve loop is entered
ChunkEnterLoop ==
    /\ cpc = "call"
    /\ ~FitsInOneChunk(text, chunk_size)
    /\ chunks' = <<>>
    /\ start' = 0
    /\ cpc' = "loop"
    /\ UNCHANGED <<text, chunk_size, chunk_overlap, visited, covered>>
    /\ UNCHANGED notChunkVars

\* lines 80-104: one iteration of `while start < len(text)`
ChunkLoopStep ==
    /\ cpc = "loop"
    /\ start < Len(text)
    /\ Len(visited) < MaxIters
    /\ LET end == CarveEnd(text, start, chunk_size)
           chunk == ChunkAt(text, start, end)
       IN  /\ chunks' = IF chunk # <<>> THEN Append(chunks, chunk) ELSE chunks
           /\ covered' = covered \cup ChunkOffsets(text, start, end)
           /\ start' = NextStart(text, end, chunk_overlap)
    /\ visited' = Append(visited, start)
    /\ UNCHANGED <<text, chunk_size, chunk_overlap, cpc>>
    /\ UNCHANGED notChunkVars

\* line 106: the loop condition fails, chunks is returned
ChunkReturn ==
    /\ cpc = "loop"
    /\ start >= Len(text)
    /\ cpc' = "returned"
    /\ UNCHANGED <<text, chunk_size, chunk_overlap, start, chunks, visited, covered>>
    /\ UNCHANGED notChunkVars

\* chunk_text is not running
ChunkIdle ==
    /\ text = <<>>
    /\ chunk_size = 0
    /\ chunk_overlap = 0
    /\ start = 0
    /\ chunks = <<>>
    /\ cpc = "idle"
    /\ visited = <<>>
    /\ covered = {}

-----------------------------------------------------------------------------
(* JSON values as the tenant-override file holds them *)

JStr(x) == [t |-> "str", s |-> x, n |-> 0]
JInt(k) == [t |-> "int", s |-> "", n |-> k]
\* a JSON number with a fraction, in tenths (25 is 2.5)
JFloat(tenths) == [t |-> "float", s |-> "", n |-> tenths]
JNull == [t |-> "null", s |-> "", n |-> 0]

\* Python truthiness of a value: `if tenant_id:`, `tenant_id or 'default'`
Truthy(v) ==
    CASE v.t = "str" -> v.s # ""
      [] v.t = "int" -> v.n # 0
      [] v.t = "float" -> v.n # 0
      [] OTHER -> FALSE

\* the strings int() parses, with their values
NumericStrings == {"7"}
StrToInt(x) == CASE x = "7" -> 7

\* int(v): the integer, or the exception int() raises
IntOf(v) ==
    CASE v.t = "int" -> [ok |-> TRUE, error |-> "", n |-> v.n]
      [] v.t = "float" -> [ok |-> TRUE, error |-> "", n |-> v.n \div 10]
      [] v.t = "str" ->
            IF v.s \in NumericStrings
            THEN [ok |-> TRUE, error |-> "", n |-> StrToInt(v.s)]
            ELSE [ok |-> FALSE, error |-> "ValueError", n |-> 0]
      [] OTHER -> [ok |-> FALSE, error |-> "TypeError", n |-> 0]

\* d[key] = val on a mapping
DictSet(d, key, val) == [k \in DOMAIN d \cup {key} |-> IF k = key THEN val ELSE d[k]]

\* d.get(key, default)
DictGet(d, key, default) == IF key \in DOMAIN d THEN d[key] ELSE default

EmptyDict == [k \in {} |-> JNull]

-----------------------------------------------------------------------------
(* BASE_SUPPORT_CONFIG and the contents of the tenant-override file *)

BaseTopK == 3

BASE_SUPPORT_CONFIG ==
    [collection |-> JStr("support_faq"),
     top_k |-> JInt(BaseTopK),
     fallback |-> JStr("base fallback"),
     system_prompt |-> JStr("base prompt")]

ConfigFields == {"collection", "top_k", "fallback", "system_prompt"}

\* the values a record of the file may give each field
FieldValues(f) ==
    CASE f = "collection" -> {JStr("tenant_faq")}
      [] f = "top_k" -> {JInt(5), JStr("7"), JFloat(25), JStr("many"), JNull}
      [] f = "fallback" -> {JStr("tenant fallback")}
      [] f = "system_prompt" -> {JStr("tenant prompt")}

\* every record body: any subset of the fields, each with one of its values
EntryBodies ==
    UNION {{e \in [fs -> UNION {FieldValues(f) : f \in ConfigFields}] :
                \A f \in fs : e[f] \in FieldValues(f)} : fs \in SUBSET ConfigFields}

\* the tenant ids the file names
FileTenantIds == {"", "default", "acme"}

\* an element of the file: a JSON object, or something that is not one
JObject(fields) == [obj |-> TRUE, fields |-> fields]
NotAnObject == [obj |-> FALSE, fields |-> EmptyDict]

\* list format: records that may carry a tenant_id
ListItems ==
    {JObject(e) : e \in EntryBodies}
        \cup {JObject(DictSet(e, "tenant_id", JStr(tid))) : e \in EntryBodies, tid \in FileTenantIds}
        \cup {NotAnObject}

\* mapping format: the values under the tenant-id keys
DictItems == {JObject(e) : e \in EntryBodies} \cup {NotAnObject}

SeqsUpTo(S, n) == UNION {[1..k -> S] : k \in 0..n}

\* sequences without a repeated element (the keys of a JSON object)
Distinct(q) == \A i, j \in 1..Len(q) : i # j => q[i] # q[j]

TenantFiles ==
    {[kind |-> k, keys |-> <<>>, items |-> <<>>] : k \in {"missing", "unparseable", "scalar"}}
        \cup {[kind |-> "list", keys |-> <<>>, items |-> its] : its \in SeqsUpTo(ListItems, MaxEntries)}
        \cup {[kind |-> "dict", keys |-> ks, items |-> its] :
                ks \in {q \in SeqsUpTo(FileTenantIds, MaxEntries) : Distinct(q)},
                its \in SeqsUpTo(DictItems, MaxEntries)}

WellFormedFile(f) == f.kind # "dict" \/ Len(f.keys) = Len(f.items)

-----------------------------------------------------------------------------
(* _load_tenant_overrides *)

Loaded(overrides) == [raised |-> FALSE, overrides |-> overrides]
LoadFailed == [raised |-> TRUE, overrides |-> EmptyDict]

RECURSIVE LoadList(_, _)
\* lines 44-48: for entry in data
LoadList(items, overrides) ==
    IF items = <<>> THEN Loaded(overrides)
    ELSE LET entry == Head(items)
         IN  IF ~entry.obj
             THEN LoadFailed   \* entry.get: AttributeError
             ELSE LET tenant_id == DictGet(entry.fields, "tenant_id", JNull)
                  IN  IF Truthy(tenant_id)
                      THEN LoadList(Tail(items), DictSet(overrides, tenant_id.s, entry.fields))
                      ELSE LoadList(Tail(items), overrides)

RECURSIVE LoadDict(_, _, _)
\* lines 49-53: for tenant_id, entry in data.items()
LoadDict(keys, items, overrides) ==
    IF keys = <<>> THEN Loaded(overrides)
    ELSE LET entry == Head(items)
         IN  IF ~entry.obj
             THEN LoadFailed   \* entry['tenant_id'] = ...: TypeError
             ELSE LoadDict(Tail(keys), Tail(items),
                           DictSet(overrides, Head(keys),
                                   DictSet(entry.fields, "tenant_id", JStr(Head(keys)))))

\* lines 42-54: the body of the try
LoadTry(f) ==
    CASE f.kind = "unparseable" -> LoadFailed   \* json.loads raises
      [] f.kind = "list" -> LoadList(f.items, EmptyDict)
      [] f.kind = "dict" -> LoadDict(f.keys, f.items, EmptyDict)
      [] OTHER -> Loaded(EmptyDict)

\* lines 37-56
LoadTenantOverrides(f) ==
    IF f.kind = "missing" THEN Loaded(EmptyDict)
    ELSE IF LoadTry(f).raised THEN Loaded(EmptyDict) ELSE LoadTry(f)

-----------------------------------------------------------------------------
(* _resolve_config *)

Resolved(cfg) == [ok |-> TRUE, error |-> "", config |-> cfg]

WithTenant(cfg, tenant_id) ==
    [collection |-> cfg.collection, top_k |-> cfg.top_k,
     fallback |-> cfg.fallback, system_prompt |-> cfg.system_prompt,
     tenant_id |-> tenant_id]

NoConfig == WithTenant(BASE_SUPPORT_CONFIG, JNull)

ResolveRaised(error) == [ok |-> FALSE, error |-> error, config |-> NoConfig]

\* the merge with the fallback line left out
MergeTenant_FallbackNotMerged(cfg, tenant_cfg) ==
    [collection |-> DictGet(tenant_cfg, "collection", cfg.collection),
     top_k |-> DictGet(tenant_cfg, "top_k", cfg.top_k),
     fallback |-> cfg.fallback,
     system_prompt |-> DictGet(tenant_cfg, "system_prompt", cfg.system_prompt)]

\* lines 69-72: the four tenant_cfg.get(...) assignments
MergeTenant(cfg, tenant_cfg) ==
    [collection |-> DictGet(tenant_cfg, "collection", cfg.collection),
     top_k |-> DictGet(tenant_cfg, "top_k", cfg.top_k),
     fallback |-> DictGet(tenant_cfg, "fallback", cfg.fallback),
     system_prompt |-> DictGet(tenant_cfg, "system_prompt", cfg.system_prompt)]

\* config['tenant_id'] = tenant_id or 'default'
TenantOrDefault(tenant_id) == IF Truthy(tenant_id) THEN tenant_id ELSE JStr("default")

\* whether the override branch of lines 66-68 is taken
HasOverride(overrides, tenant_id) ==
    /\ Truthy(tenant_id)
    /\ tenant_id.s \in DOMAIN overrides
    /\ DOMAIN overrides[tenant_id.s] # {}

\* lines 62-74
ResolveConfig(overrides, tenant_id) ==
    IF HasOverride(overrides, tenant_id)
    THEN LET merged == MergeTenant(BASE_SUPPORT_CONFIG, overrides[tenant_id.s])
             k == IntOf(merged.top_k)
         IN  IF k.ok
             THEN Resolved(WithTenant([merged EXCEPT !.top_k = JInt(k.n)],
                                      TenantOrDefault(tenant_id)))
             ELSE ResolveRaised(k.error)
    ELSE Resolved(WithTenant(BASE_SUPPORT_CONFIG, TenantOrDefault(tenant_id)))

-----------------------------------------------------------------------------
(* The tenant configuration: the state machine *)

\* the tenant_id arguments: None, "", and three names, one of them in no file
TenantIdArgs == {JNull, JStr(""), JStr("default"), JStr("acme"), JStr("globex")}

TenantInit ==
    /\ tenantFile \in {f \in TenantFiles : WellFormedFile(f)}
    /\ TENANT_OVERRIDES = EmptyDict
    /\ loadRaised = FALSE
    /\ rpc = "import"
    /\ resolveArg = JNull
    /\ resolveResult = ResolveRaised("")

\* the tenant configuration is not in use
TenantIdle ==
    /\ tenantFile = [kind |-> "missing", keys |-> <<>>, items |-> <<>>]
    /\ TENANT_OVERRIDES = EmptyDict
    /\ loadRaised = FALSE
    /\ rpc = "idle"
    /\ resolveArg = JNull
    /\ resolveResult = ResolveRaised("")

\* line 59: TENANT_OVERRIDES = _load_tenant_overrides() when the module is imported
ImportSupportBot ==
    /\ rpc = "import"
    /\ TENANT_OVERRIDES' = LoadTenantOverrides(tenantFile).overrides
    /\ loadRaised' = LoadTenantOverrides(tenantFile).raised
    /\ rpc' = "ready"
    /\ UNCHANGED <<tenantFile, resolveArg, resolveResult>>
    /\ UNCHANGED notTenantVars

\* a call _resolve_config(tenant_id)
ResolveConfigCall(tenant_id) ==
    /\ rpc \in {"ready", "resolved"}
    /\ resolveArg' = tenant_id
    /\ resolveResult' = ResolveConfig(TENANT_OVERRIDES, tenant_id)
    /\ rpc' = "resolved"
    /\ UNCHANGED <<tenantFile, TENANT_OVERRIDES, loadRaised>>
    /\ UNCHANGED notTenantVars
-----------------------------------------------------------------------------
(* analytics.py: categorize_intent *)

Upper == <<"A", "B", "C", "D", "E", "F", "G", "H", "I", "J", "K", "L", "M",
           "N", "O", "P", "Q", "R", "S", "T", "U", "V", "W", "X", "Y", "Z">>
Lower == <<"a", "b", "c", "d", "e", "f", "g", "h", "i", "j", "k", "l", "m",
           "n", "o", "p", "q", "r", "s", "t", "u", "v", "w", "x", "y", "z">>

\* str.lower for one character
LowerChar(c) ==
    IF \E i \in 1..Len(Upper) : Upper[i] = c
    THEN Lower[CHOOSE i \in 1..Len(Upper) : Upper[i] = c]
    ELSE c

\* message.lower()
LowerStr(s) == [i \in 1..Len(s) |-> LowerChar(s[i])]

\* `sub in s`
Contains(s, sub) == RFind(s, sub, 0, Len(s)) # -1

\* the intents in the order INTENT_KEYWORDS declares them
IntentOrder == <<"billing", "deployment", "usage", "support">>

INTENT_KEYWORDS ==
    [billing |->
        {<<"i", "n", "v", "o", "i", "c", "e">>,
         <<"p", "r", "i", "c", "e">>,
         <<"p", "r", "i", "c", "i", "n", "g">>,
         <<"b", "i", "l", "l">>,
         <<"p", "a", "y", "m", "e", "n", "t">>},
     deployment |->
        {<<"d", "e", "p", "l", "o", "y">>,
         <<"d", "o", "c", "k", "e", "r">>,
         <<"k", "u", "b", "e", "r", "n", "e", "t", "e", "s">>,
         <<"c", "l", "o", "u", "d">>,
         <<"s", "e", "r", "v", "e", "r">>},
     usage |->
        {<<"u", "s", "e">>,
         <<"r", "u", "n">>,
         <<"s", "e", "t", "u", "p">>,
         <<"i", "n", "s", "t", "a", "l", "l">>,
         <<"c", "o", "n", "f", "i", "g", "u", "r", "e">>,
         <<"s", "t", "a", "r", "t">>},
     support |->
        {<<"h", "e", "l", "p">>,
         <<"i", "s", "s", "u", "e">>,
         <<"b", "u", "g">>,
         <<"e", "r", "r", "o", "r">>,
         <<"b", "r", "o", "k", "e", "n">>}]

\* any(keyword in normalized for keyword in keywords)
IntentMatches(intent, normalized) ==
    \E keyword \in INTENT_KEYWORDS[intent] : Contains(normalized, keyword)

\* the last matching intent of the table instead of the first
CategorizeIntent_LastMatch(message) ==
    LET normalized == LowerStr(message)
        hits == {i \in 1..Len(IntentOrder) : IntentMatches(IntentOrder[i], normalized)}
    IN  IF hits = {} THEN "other" ELSE IntentOrder[MaxOf(hits)]

\* lines 22-29
CategorizeIntent(message) ==
    LET normalized == LowerStr(message)
        hits == {i \in 1..Len(IntentOrder) : IntentMatches(IntentOrder[i], normalized)}
    IN  IF hits = {} THEN "other" ELSE IntentOrder[MinOf(hits)]

\* the messages of the model
MsgInvoice == <<"M", "y", " ", "i", "n", "v", "o", "i", "c", "e", " ", "i", "s", " ", "w", "r", "o", "n", "g">>
MsgInstall == <<"H", "o", "w", " ", "d", "o", " ", "I", " ", "i", "n", "s", "t", "a", "l", "l", " ", "t", "h", "e", " ", "C", "L", "I", "?">>
MsgOther == <<"a", "s", "d", "f", " ", "q", "w", "e", "r", "t", "y">>

-----------------------------------------------------------------------------
(* analytics.py: the metrics document and record_support_interaction *)

EmptyCounts == [k \in {} |-> 0]

\* the default document of _load_metrics (lines 39-46)
ZeroMetrics ==
    [total_queries |-> 0,
     fallback_count |-> 0,
     intent_counts |-> EmptyCounts,
     total_response_time_ms |-> 0,
     last_updated |-> "None",
     tenant_breakdown |-> [k \in {} |-> 0]]

\* the default bucket of a tenant (lines 76-81)
ZeroTenantStats ==
    [queries |-> 0, fallbacks |-> 0, intent_counts |-> EmptyCounts, total_response_time_ms |-> 0]

\* the analytics file: absent, unparseable (a write cut short), or a document
AbsentFile == [state |-> "absent", doc |-> ZeroMetrics]
GarbageFile == [state |-> "garbage", doc |-> ZeroMetrics]
SavedFile(doc) == [state |-> "ok", doc |-> doc]

\* lines 32-46
LoadMetrics(file) == IF file.state \in {"absent", "garbage"} THEN ZeroMetrics ELSE file.doc

\* the counter set to 1 whatever it held
Increment_Overwrite(counts, key) ==
    [k \in DOMAIN counts \cup {key} |-> IF k = key THEN 1 ELSE counts[k]]

\* counts[key] = counts.get(key, 0) + 1
Increment(counts, key) ==
    [k \in DOMAIN counts \cup {key} |->
        IF k = key THEN (IF key \in DOMAIN counts THEN counts[key] ELSE 0) + 1 ELSE counts[k]]

\* float(response_time_ms or 0.0)
MsOrZero(response_time_ms) == IF Truthy(response_time_ms) THEN response_time_ms.n ELSE 0

\* the tenant key always "default"
TenantKey_AlwaysDefault(tenant) == "default"

\* tenant_key = tenant_id or 'default' (line 74)
TenantKey(tenant) == TenantOrDefault(tenant).s

\* lines 63-93: the document record_support_interaction saves and returns
RecordSupportInteraction(file, msg, fallback, tenant, response_time_ms) ==
    LET metrics == LoadMetrics(file)
        intent == CategorizeIntent(msg)
        tenant_key == TenantKey(tenant)
        tenant_breakdown == metrics.tenant_breakdown
        tenant_stats == IF tenant_key \in DOMAIN tenant_breakdown
                        THEN tenant_breakdown[tenant_key]
                        ELSE ZeroTenantStats
        new_stats ==
            [queries |-> tenant_stats.queries + 1,
             fallbacks |-> tenant_stats.fallbacks + (IF fallback THEN 1 ELSE 0),
             intent_counts |-> Increment(tenant_stats.intent_counts, intent),
             total_response_time_ms |->
                 tenant_stats.total_response_time_ms + MsOrZero(response_time_ms)]
    IN  [total_queries |-> metrics.total_queries + 1,
         fallback_count |-> metrics.fallback_count + (IF fallback THEN 1 ELSE 0),
         intent_counts |-> Increment(metrics.intent_counts, intent),
         total_response_time_ms |-> metrics.total_response_time_ms + MsOrZero(response_time_ms),
         last_updated |-> "utcnow",
         tenant_breakdown |->
             [k \in DOMAIN tenant_breakdown \cup {tenant_key} |->
                 IF k = tenant_key THEN new_stats ELSE tenant_breakdown[k]]]

\* files that parse as JSON but are not a well-shaped metrics document:
\* `{}`, whose every field is read with its default (lines 64-76); `[]`, a
\* list; and `{"total_queries": "3"}`, a field of the wrong type
EmptyObjectFile == [state |-> "empty_object", doc |-> ZeroMetrics]
NotObjectFile == [state |-> "not_object", doc |-> ZeroMetrics]
BadFieldFile == [state |-> "bad_field", doc |-> ZeroMetrics]

\* the exception the update raises on what _load_metrics returned: json.load
\* succeeded, so the value is used as it is (lines 35-36); a list has no
\* .get (line 64), and "3" + 1 is a TypeError (line 64)
RecordError(file) ==
    CASE file.state = "not_object" -> "AttributeError"
      [] file.state = "bad_field" -> "TypeError"
      [] OTHER -> "none"

RecordReturned(doc) == [kind |-> "returned", error |-> "none", doc |-> doc]
RecordRaised(error) == [kind |-> "raised", error |-> error, doc |-> ZeroMetrics]
NoRecord == [kind |-> "none", error |-> "none", doc |-> ZeroMetrics]

\* lines 55-93: what a call of record_support_interaction hands its caller
RecordOutcome(file, msg, fallback, tenant, response_time_ms) ==
    IF RecordError(file) # "none" THEN RecordRaised(RecordError(file))
    ELSE RecordReturned(RecordSupportInteraction(file, msg, fallback, tenant, response_time_ms))

-----------------------------------------------------------------------------
(* retriever.py: retrieve_relevant_documents *)

CollectionNames == {"support_faq", "tenant_faq"}

\* metadata of a stored chunk: any of filename and source
Meta(filename, source) == [filename |-> filename, source |-> source]
NoMeta == [k \in {} |-> <<>>]

\* a stored chunk as the store ranks it for the query; distance in tenths
StoredDoc(id, content, distance, metadata) ==
    [id |-> id, content |-> content, distance |-> distance, metadata |-> metadata]

DocA == StoredDoc("a", <<" ", "x", " ">>, 2, Meta(<<"f">>, <<"s">>))
DocB == StoredDoc("b", <<"y">>, 5, Meta(<<>>, <<"t">>))
DocD == StoredDoc("d", <<"z", "\n">>, 10, NoMeta)
DocE == StoredDoc("e", <<"v">>, 13, Meta(<<"g">>, <<>>))

\* the chunks of a collection, nearest first
RankedPool == <<DocA, DocB, DocD, DocE>>

\* the subsequence of q at the positions in keep
RECURSIVE Pick(_, _)
Pick(q, keep) ==
    IF q = <<>> THEN <<>>
    ELSE IF Len(q) \in keep
         THEN Append(Pick(SubSeq(q, 1, Len(q) - 1), keep), q[Len(q)])
         ELSE Pick(SubSeq(q, 1, Len(q) - 1), keep)

\* what a collection may hold: any of the chunks, in rank order
RankedLists == {Pick(RankedPool, keep) : keep \in SUBSET (1..Len(RankedPool))}

\* collection_name, or the default name when it is None (lines 67-68)
CollectionName(name) == IF name.t = "null" THEN "chatbot_docs" ELSE name.s

\* the distance itself taken as the score
Similarity_IsDistance(distance) == distance

\* similarity = 1 - dist, in tenths
Similarity(distance) == 10 - distance

\* the record built for a result that passes the filter (lines 219-224)
Structured(d) ==
    [id |-> d.id, content |-> d.content, score |-> Similarity(d.distance), metadata |-> d.metadata]

RECURSIVE FilterByScore_Strict(_, _)
\* the filter with the comparison made strict
FilterByScore_Strict(results, min_score) ==
    IF results = <<>> THEN <<>>
    ELSE IF Similarity(Head(results).distance) > min_score
         THEN <<Structured(Head(results))>> \o FilterByScore_Strict(Tail(results), min_score)
         ELSE FilterByScore_Strict(Tail(results), min_score)

RECURSIVE FilterByScore(_, _)
\* lines 216-224
FilterByScore(results, min_score) ==
    IF results = <<>> THEN <<>>
    ELSE IF Similarity(Head(results).distance) >= min_score
         THEN <<Structured(Head(results))>> \o FilterByScore(Tail(results), min_score)
         ELSE FilterByScore(Tail(results), min_score)

\* collection.query(query_texts=[query], n_results=top_k): the top_k nearest
QueryStore(collection, top_k) ==
    SubSeq(collection, 1, IF top_k < Len(collection) THEN top_k ELSE Len(collection))

\* where a call on the vector store may fail: creating the client, opening
\* the collection, count(), query()
StoreFailures == {"client", "open", "count", "query"}

\* str(e) of the exception the failing call raises
ErrorText(failure) ==
    CASE failure = "client" -> <<"n", "o", " ", "c", "l", "i", "e", "n", "t">>
      [] failure = "open" -> <<"n", "o", " ", "c", "o", "l", "l", "e", "c", "t", "i", "o", "n">>
      [] failure = "count" -> <<"c", "o", "u", "n", "t", " ", "f", "a", "i", "l", "e", "d">>
      [] OTHER -> <<"q", "u", "e", "r", "y", " ", "f", "a", "i", "l", "e", "d">>

\* the failure of the call, if any: a query for fewer than one result is
\* rejected by the store
FailureOf(st, name, top_k, failure) ==
    IF failure # "none" THEN failure
    ELSE IF name \in DOMAIN st /\ Len(st[name]) > 0 /\ top_k < 1 THEN "query"
    ELSE "none"

\* the contents of a collection; one the store does not hold is created empty
CollectionOf(st, name) == IF name \in DOMAIN st THEN st[name] ELSE <<>>

\* what a retriever function hands its caller
RetrieverReturns(value) == [raised |-> FALSE, error |-> <<>>, value |-> value]
RetrieverRaises(error, value) == [raised |-> TRUE, error |-> error, value |-> value]

\* the error of the store let through to the caller
DocumentsOnError_Raise(error) == RetrieverRaises(error, <<>>)

\* lines 232-234: the error is logged, an empty list returned
DocumentsOnError(error) == RetrieverReturns(<<>>)

\* lines 196-234; failure is where the vector store fails in this call, if it does
RetrieveRelevantDocuments(st, top_k, min_score, collection_name, failure) ==
    LET name == CollectionName(collection_name)
    IN  IF FailureOf(st, name, top_k, failure) # "none"
        THEN DocumentsOnError(ErrorText(FailureOf(st, name, top_k, failure)))
        ELSE IF Len(CollectionOf(st, name)) = 0
             THEN RetrieverReturns(<<>>)
             ELSE RetrieverReturns(FilterByScore(QueryStore(st[name], top_k), min_score))

-----------------------------------------------------------------------------
(* retriever.py: retrieve_relevant_context *)

\* lines 122-125
EmptyKnowledgeBase ==
    <<"[", "N", "o", " ", "d", "o", "c", "u", "m", "e", "n", "t", "s", " ", "i", "n", " ", "d",
      "a", "t", "a", "b", "a", "s", "e", "]", " ", "P", "l", "e", "a", "s", "e", " ", "r", "u",
      "n", " ", "t", "h", "e", " ", "i", "n", "g", "e", "s", "t", "i", "o", "n", " ", "s", "c",
      "r", "i", "p", "t", " ", "t", "o", " ", "a", "d", "d", " ", "d", "o", "c", "u", "m", "e",
      "n", "t", "s", " ", "t", "o", " ", "t", "h", "e", " ", "k", "n", "o", "w", "l", "e", "d",
      "g", "e", " ", "b", "a", "s", "e", ".">>
\* line 142
NoRelevantDocuments ==
    <<"[", "N", "o", " ", "r", "e", "l", "e", "v", "a", "n", "t", " ", "d", "o", "c", "u", "m",
      "e", "n", "t", "s", " ", "f", "o", "u", "n", "d", "]">>
\* line 155
BelowThreshold ==
    <<"[", "N", "o", " ", "d", "o", "c", "u", "m", "e", "n", "t", "s", " ", "m", "e", "t", " ",
      "t", "h", "e", " ", "s", "i", "m", "i", "l", "a", "r", "i", "t", "y", " ", "t", "h", "r",
      "e", "s", "h", "o", "l", "d", "]">>
\* line 166: f"[Error retrieving context: {str(e)}]"
ErrorPrefix ==
    <<"[", "E", "r", "r", "o", "r", " ", "r", "e", "t", "r", "i", "e", "v", "i", "n", "g", " ",
      "c", "o", "n", "t", "e", "x", "t", ":", " ">>
ErrorSuffix == <<"]">>

RECURSIVE ContentsPassing_Strict(_, _)
\* the filter with the comparison made strict
ContentsPassing_Strict(results, min_score) ==
    IF results = <<>> THEN <<>>
    ELSE IF Similarity(Head(results).distance) > min_score
         THEN <<Head(results).content>> \o ContentsPassing_Strict(Tail(results), min_score)
         ELSE ContentsPassing_Strict(Tail(results), min_score)

RECURSIVE ContentsPassing(_, _)
\* lines 146-151: the contents of the results whose similarity is at least
\* min_score
ContentsPassing(results, min_score) ==
    IF results = <<>> THEN <<>>
    ELSE IF Similarity(Head(results).distance) >= min_score
         THEN <<Head(results).content>> \o ContentsPassing(Tail(results), min_score)
         ELSE ContentsPassing(Tail(results), min_score)

\* "\n\n---\n\n" (line 158)
ContextSeparator == <<"\n", "\n", "-", "-", "-", "\n", "\n">>

RECURSIVE JoinContents(_)
\* "\n\n---\n\n".join(filtered_docs) (line 158)
JoinContents(contents) ==
    IF contents = <<>> THEN <<>>
    ELSE IF Len(contents) = 1 THEN Head(contents)
    ELSE Head(contents) \o ContextSeparator \o JoinContents(Tail(contents))

\* the error of the store let through to the caller
ContextOnError_Raise(error) == RetrieverRaises(error, <<>>)

\* lines 163-166: the error is logged, the error string returned
ContextOnError(error) == RetrieverReturns(ErrorPrefix \o error \o ErrorSuffix)

\* lines 116-166
RetrieveRelevantContext(st, top_k, min_score, collection_name, failure) ==
    LET name == CollectionName(collection_name)
        results == QueryStore(CollectionOf(st, name), top_k)
        filtered_docs == ContentsPassing(results, min_score)
    IN  IF FailureOf(st, name, top_k, failure) # "none"
        THEN ContextOnError(ErrorText(FailureOf(st, name, top_k, failure)))
        ELSE IF Len(CollectionOf(st, name)) = 0 THEN RetrieverReturns(EmptyKnowledgeBase)
        ELSE IF results = <<>> THEN RetrieverReturns(NoRelevantDocuments)
        ELSE IF filtered_docs = <<>> THEN RetrieverReturns(BelowThreshold)
        ELSE RetrieverReturns(JoinContents(filtered_docs))

\* min_score when the caller passes none (line 172)
DefaultMinScore == 0

-----------------------------------------------------------------------------
(* support_bot.py: _format_context *)

StrSource == <<"S", "o", "u", "r", "c", "e", ":", " ">>
StrFaq == <<"f", "a", "q">>
BlockSeparator == <<"\n", "\n", "-", "-", "-", "\n", "\n">>

\* metadata.get(key), None read as the empty string
MetaGet(metadata, key) == IF key \in DOMAIN metadata THEN metadata[key] ELSE <<>>

\* the source name with source looked at before filename
SourceName_SourceFirst(metadata) ==
    IF MetaGet(metadata, "source") # <<>> THEN MetaGet(metadata, "source")
    ELSE IF MetaGet(metadata, "filename") # <<>> THEN MetaGet(metadata, "filename")
    ELSE StrFaq

\* metadata.get('filename') or metadata.get('source') or 'faq' (line 85)
SourceName(metadata) ==
    IF MetaGet(metadata, "filename") # <<>> THEN MetaGet(metadata, "filename")
    ELSE IF MetaGet(metadata, "source") # <<>> THEN MetaGet(metadata, "source")
    ELSE StrFaq

\* f"Source: {source_name}\n\n{content.strip()}" (line 88)
ContextBlock(doc) == StrSource \o SourceName(doc.metadata) \o ParagraphBreak \o Strip(doc.content)

RECURSIVE JoinBlocks(_)
\* "\n\n---\n\n".join(context_blocks) (line 90)
JoinBlocks(blocks) ==
    IF blocks = <<>> THEN <<>>
    ELSE IF Len(blocks) = 1 THEN Head(blocks)
    ELSE Head(blocks) \o BlockSeparator \o JoinBlocks(Tail(blocks))

\* lines 77-90: (context, sources)
FormatContext(ds) ==
    [context |-> JoinBlocks([i \in 1..Len(ds) |-> ContextBlock(ds[i])]),
     sources |-> [i \in 1..Len(ds) |-> SourceName(ds[i].metadata)]]

-----------------------------------------------------------------------------
(* support_bot.py: run_support_bot_flow *)

\* the branch taken whatever was retrieved
ShouldGenerate_Always(ds) == TRUE

\* `if docs:` (line 113)
ShouldGenerate(ds) == ds # <<>>

\* the f-string of lines 119-124, by the values it embeds
UserMessage(uid, tenant, question) == [user_id |-> uid, tenant |-> tenant, question |-> question]

NoGenerateArgs ==
    [system_prompt |-> JNull, user_message |-> UserMessage("", JNull, <<>>), context |-> <<>>]

\* what the provider call behind LLMClient.generate may end in
NoOutcome == [ok |-> TRUE, text |-> JNull, error |-> ""]
GenerateSucceeds == {[ok |-> TRUE, text |-> JStr("generated answer"), error |-> ""]}
GenerateFails ==
    {[ok |-> FALSE, text |-> JNull, error |-> e] :
        e \in {"LLMClientError: Failed to generate response: timeout",
               "LLMClientError: Failed to generate response: rate limit"}}

\* what LLMClient() raises when the provider is not configured (llm_client.py:62)
ClientConfigError == "LLMClientError: OPENAI_API_KEY environment variable not set"

\* context_text or None (line 144)
OrNone(s) == [none |-> s = <<>>, text |-> s]

Response(uid, ans, fallback, srcs, context, tenant) ==
    [user_id |-> uid, answer |-> ans, fallback_used |-> fallback, sources |-> srcs,
     retrieved_context |-> OrNone(context), tenant_id |-> tenant]

NoResult == [kind |-> "none", error |-> "", response |-> Response("", JNull, FALSE, <<>>, <<>>, JNull)]
Returned(response) == [kind |-> "returned", error |-> "", response |-> response]
Raised(error) == [kind |-> "raised", error |-> error, response |-> NoResult.response]

\* a failed generate answered with the fallback text
AfterGenerateError_FallBack(error, cfg) ==
    [fpc |-> "FALLBACK", answer |-> cfg.fallback, fallback_used |-> TRUE, result |-> NoResult]

\* lines 117-126 when generate raises: nothing catches it, the flow ends with it
AfterGenerateError(error, cfg) ==
    [fpc |-> "FAILED", answer |-> JNull, fallback_used |-> FALSE, result |-> Raised(error)]

\* the callers of the model
FlowUsers == {"u1"}
FlowMessages == {MsgInvoice, MsgOther}
FlowTenantArgs == {JNull, JStr("acme"), JStr("globex")}
\* elapsed_ms as the clock measures it, in whole milliseconds
ElapsedMs == {JInt(2)}

\* the override files of the model: none, a full record for acme, a record
\* whose top_k int() rejects
AcmeRecord ==
    [tenant_id |-> JStr("acme"), collection |-> JStr("tenant_faq"), top_k |-> JInt(2),
     fallback |-> JStr("tenant fallback"), system_prompt |-> JStr("tenant prompt")]
AcmeBadRecord == [tenant_id |-> JStr("acme"), top_k |-> JStr("many")]
FlowTenantFiles ==
    {[kind |-> "missing", keys |-> <<>>, items |-> <<>>],
     [kind |-> "list", keys |-> <<>>, items |-> <<JObject(AcmeRecord)>>],
     [kind |-> "list", keys |-> <<>>, items |-> <<JObject(AcmeBadRecord)>>]}

\* the stores of the model: the default collection holds any ranked list, the
\* tenant's collection nothing or two chunks
FlowStores ==
    {[support_faq |-> a, tenant_faq |-> b] : a \in RankedLists, b \in {<<>>, <<DocB, DocD, DocE>>}}

FlowInit ==
    /\ args = [user_id |-> "", message |-> <<>>, tenant_id |-> JNull]
    /\ fpc = "idle"
    /\ config = NoConfig
    /\ docs = <<>>
    /\ context_text = <<>>
    /\ sources = <<>>
    /\ fallback_used = FALSE
    /\ answer = JNull
    /\ flowResult = NoResult
    /\ generateCalls = 0
    /\ generateArgs = NoGenerateArgs
    /\ generateOutcome = NoOutcome
    /\ llmClient = "None"
    /\ store \in FlowStores
    /\ metricsFile \in {AbsentFile, GarbageFile}
    /\ recordCalls = 0
    /\ metricsBefore = metricsFile
    /\ calls = 0

\* the orchestrator is not in use
FlowQuiet ==
    /\ args = [user_id |-> "", message |-> <<>>, tenant_id |-> JNull]
    /\ fpc = "off"
    /\ config = NoConfig
    /\ docs = <<>>
    /\ context_text = <<>>
    /\ sources = <<>>
    /\ fallback_used = FALSE
    /\ answer = JNull
    /\ flowResult = NoResult
    /\ generateCalls = 0
    /\ generateArgs = NoGenerateArgs
    /\ generateOutcome = NoOutcome
    /\ llmClient = "None"
    /\ metricsFile = AbsentFile
    /\ recordCalls = 0
    /\ metricsBefore = AbsentFile
    /\ calls = 0

\* the orchestrator is not in use and the vector store holds nothing
FlowIdle == FlowQuiet /\ store = [support_faq |-> <<>>, tenant_faq |-> <<>>]

\* the tenant configuration as the import of support_bot leaves it
TenantLoaded ==
    /\ tenantFile \in FlowTenantFiles
    /\ TENANT_OVERRIDES = LoadTenantOverrides(tenantFile).overrides
    /\ loadRaised = LoadTenantOverrides(tenantFile).raised
    /\ rpc = "ready"
    /\ resolveArg = JNull
    /\ resolveResult = ResolveRaised("")

\* a call run_support_bot_flow(user_id, message, tenant_id); the locals of the
\* call before are gone
FlowCall(uid, msg, tid) ==
    /\ fpc \in {"idle", "DONE", "FAILED"}
    /\ calls < MaxCalls
    /\ calls' = calls + 1
    /\ args' = [user_id |-> uid, message |-> msg, tenant_id |-> tid]
    /\ fpc' = "START"
    /\ config' = NoConfig
    /\ docs' = <<>>
    /\ context_text' = <<>>
    /\ sources' = <<>>
    /\ fallback_used' = FALSE
    /\ answer' = JNull
    /\ flowResult' = NoResult
    /\ generateCalls' = 0
    /\ generateArgs' = NoGenerateArgs
    /\ generateOutcome' = NoOutcome
    /\ recordCalls' = 0
    /\ metricsBefore' = metricsFile
    /\ UNCHANGED <<llmClient, store, metricsFile>>
    /\ UNCHANGED notFlowVars

\* line 100: config = _resolve_config(tenant_id)
FlowResolveConfig ==
    /\ fpc = "START"
    /\ LET r == ResolveConfig(TENANT_OVERRIDES, args.tenant_id)
       IN  IF r.ok
           THEN /\ config' = r.config
                /\ fpc' = "CONFIG_RESOLVED"
                /\ UNCHANGED flowResult
           ELSE /\ flowResult' = Raised(r.error)
                /\ fpc' = "FAILED"
                /\ UNCHANGED config
    /\ UNCHANGED <<args, docs, context_text, sources, fallback_used, answer, generateCalls,
                   generateArgs, generateOutcome, llmClient, store, metricsFile, recordCalls, metricsBefore, calls>>
    /\ UNCHANGED notFlowVars

\* lines 103-111: docs = retrieve_relevant_documents(...), and the defaults of
\* context_text, sources and fallback_used
FlowRetrieve ==
    /\ fpc = "CONFIG_RESOLVED"
    /\ \E failure \in {"none"} \cup StoreFailures :
          docs' = RetrieveRelevantDocuments(store, config.top_k.n, DefaultMinScore,
                                            config.collection, failure).value
    /\ context_text' = <<>>
    /\ sources' = <<>>
    /\ fallback_used' = FALSE
    /\ fpc' = "RETRIEVED"
    /\ UNCHANGED <<args, config, answer, flowResult, generateCalls, generateArgs, generateOutcome, llmClient,
                   store, metricsFile, recordCalls, metricsBefore, calls>>
    /\ UNCHANGED notFlowVars

\* lines 113-116 when LLMClient() raises: the flow ends with the error
FlowClientUnavailable ==
    /\ fpc = "RETRIEVED"
    /\ ShouldGenerate(docs)
    /\ llmClient = "None"
    /\ context_text' = FormatContext(docs).context
    /\ sources' = FormatContext(docs).sources
    /\ flowResult' = Raised(ClientConfigError)
    /\ fpc' = "FAILED"
    /\ UNCHANGED <<args, config, docs, fallback_used, answer, generateCalls, generateArgs, generateOutcome,
                   llmClient, store, metricsFile, recordCalls, metricsBefore, calls>>
    /\ UNCHANGED notFlowVars

\* lines 113-126: the context is formatted and generate is called once; it
\* returns the answer or raises
FlowGenerate(outcome) ==
    /\ fpc = "RETRIEVED"
    /\ ShouldGenerate(docs)
    /\ llmClient' = "LLMClient"
    /\ context_text' = FormatContext(docs).context
    /\ sources' = FormatContext(docs).sources
    /\ generateCalls' = generateCalls + 1
    /\ generateOutcome' = outcome
    /\ generateArgs' = [system_prompt |-> config.system_prompt,
                        user_message |-> UserMessage(args.user_id, config.tenant_id, args.message),
                        context |-> FormatContext(docs).context]
    /\ IF outcome.ok
       THEN /\ answer' = outcome.text
            /\ fpc' = "GENERATED"
            /\ UNCHANGED <<fallback_used, flowResult>>
       ELSE /\ answer' = AfterGenerateError(outcome.error, config).answer
            /\ fallback_used' = AfterGenerateError(outcome.error, config).fallback_used
            /\ flowResult' = AfterGenerateError(outcome.error, config).result
            /\ fpc' = AfterGenerateError(outcome.error, config).fpc
    /\ UNCHANGED <<args, config, docs, store, metricsFile, recordCalls, metricsBefore, calls>>
    /\ UNCHANGED notFlowVars

\* lines 127-129: nothing retrieved, the fallback text is the answer
FlowFallback ==
    /\ fpc = "RETRIEVED"
    /\ ~ShouldGenerate(docs)
    /\ answer' = config.fallback
    /\ fallback_used' = TRUE
    /\ fpc' = "FALLBACK"
    /\ UNCHANGED <<args, config, docs, context_text, sources, flowResult, generateCalls,
                   generateArgs, generateOutcome, llmClient, store, metricsFile, recordCalls, metricsBefore, calls>>
    /\ UNCHANGED notFlowVars

\* lines 131-137: record_support_interaction(...), which loads, updates and
\* saves the metrics document
FlowRecord ==
    /\ fpc \in {"GENERATED", "FALLBACK"}
    /\ \E elapsed_ms \in ElapsedMs :
          metricsFile' = SavedFile(RecordSupportInteraction(metricsFile, args.message,
                                       fallback_used, config.tenant_id, elapsed_ms))
    /\ recordCalls' = recordCalls + 1
    /\ fpc' = "RECORDED"
    /\ UNCHANGED <<args, config, docs, context_text, sources, fallback_used, answer, flowResult,
                   generateCalls, generateArgs, generateOutcome, llmClient, store, metricsBefore, calls>>
    /\ UNCHANGED notFlowVars

\* lines 139-146: the response
FlowReturn ==
    /\ fpc = "RECORDED"
    /\ flowResult' = Returned(Response(args.user_id, answer, fallback_used, sources,
                                       context_text, config.tenant_id))
    /\ fpc' = "DONE"
    /\ UNCHANGED <<args, config, docs, context_text, sources, fallback_used, answer,
                   generateCalls, generateArgs, generateOutcome, llmClient, store, metricsFile, recordCalls,
                   metricsBefore, calls>>
    /\ UNCHANGED notFlowVars

-----------------------------------------------------------------------------
(* ingest.py: paths, the directory loader and chunk ids *)

\* the position of the last occurrence of the one-character c in s, or -1
LastIndexOf(s, c) == RFind(s, <<c>>, 0, Len(s))

\* Path(p).name: what follows the last "/"
PathName(p) == Slice(p, LastIndexOf(p, "/") + 1, Len(p))

\* the offset in name at which Path.suffix begins, or -1 when there is none:
\* the last "." that is neither the first nor the last character
SuffixAt(name) ==
    LET i == LastIndexOf(name, ".")
    IN  IF 0 < i /\ i < Len(name) - 1 THEN i ELSE -1

\* Path(p).suffix
PathSuffix(p) ==
    IF SuffixAt(PathName(p)) = -1 THEN <<>>
    ELSE Slice(PathName(p), SuffixAt(PathName(p)), Len(PathName(p)))

\* Path(p).stem
PathStem(p) ==
    IF SuffixAt(PathName(p)) = -1 THEN PathName(p)
    ELSE Slice(PathName(p), 0, SuffixAt(PathName(p)))

\* supported_extensions (line 41)
SupportedExtensions == {<<".", "t", "x", "t">>, <<".", "m", "d">>, <<".", "m", "a", "r", "k", "d", "o", "w", "n">>}

DigitChars == <<"0", "1", "2", "3", "4", "5", "6", "7", "8", "9">>

RECURSIVE IntToStr(_)
\* str(n) for n >= 0
IntToStr(n) ==
    IF n < 10 THEN <<DigitChars[n + 1]>>
    ELSE IntToStr(n \div 10) \o <<DigitChars[(n % 10) + 1]>>

StrChunk == <<"_", "c", "h", "u", "n", "k", "_">>

\* f"{Path(file_path).stem}_chunk_{i}" (line 160)
ChunkId(file_path, i) == PathStem(file_path) \o StrChunk \o IntToStr(i)

\* lines 163-168
ChunkMetadata(file_path, i, total) ==
    [source |-> file_path, chunk_index |-> i, total_chunks |-> total,
     filename |-> PathName(file_path)]

\* a file under the docs directory: its path, its content, and whether open()
\* and read() succeed on it
File(p, content, readable) == [path |-> p, content |-> content, readable |-> readable]

\* a text of n characters with no paragraph or sentence break
LongText(n) == [i \in 1..n |-> "a"]

FileReadmeA == File(<<"d", "/", "a", "/", "r", ".", "m", "d">>, <<"a", "b", "c">>, TRUE)
FileReadmeB == File(<<"d", "/", "b", "/", "r", ".", "m", "d">>, <<"x", "y">>, TRUE)
FileReadmeTxt == File(<<"d", "/", "r", ".", "t", "x", "t">>, <<"a", "b", "c">>, TRUE)
FileGuide == File(<<"d", "/", "g", ".", "v", "2", ".", "M", "D">>, <<"a", "b", "c", "d">>, TRUE)
FileImage == File(<<"d", "/", "i", ".", "p", "n", "g">>, <<"p", "n", "g">>, TRUE)
FileBlank == File(<<"d", "/", "w", ".", "m", "d">>, <<" ", "\n">>, TRUE)
FileUnreadable == File(<<"d", "/", "u", ".", "m", "d">>, <<"a">>, FALSE)
\* the k-th long file, "d/g<k>.md"
LongFile(k) == File(<<"d", "/", "g">> \o IntToStr(k) \o <<".", "m", "d">>, LongText(LongLen), TRUE)

\* what docs_path.rglob('*') yields: the files under the directory, in the
\* order the file system lists them
Listings ==
    {<<>>,
     <<FileImage, FileBlank, FileUnreadable>>,
     <<FileReadmeA, FileImage, FileGuide>>,
     <<FileReadmeA, FileReadmeB>>,
     <<FileReadmeTxt, FileBlank, FileReadmeA>>,
     <<FileGuide, LongFile(1), LongFile(2), LongFile(3)>>,
     <<FileReadmeA, LongFile(1), LongFile(2), LongFile(3), FileReadmeB>>,
     <<LongFile(1), LongFile(2), LongFile(3), LongFile(4), LongFile(5), LongFile(6)>>}

\* line 44: file_path.suffix.lower() in supported_extensions
IsSupported(p) == LowerStr(PathSuffix(p)) \in SupportedExtensions

RECURSIVE LoadDocuments(_)
\* lines 43-59: the (file_path, content) pairs of the readable, supported,
\* non-blank files, in listing order
LoadDocuments(files) ==
    IF files = <<>> THEN <<>>
    ELSE LET f == Head(files)
         IN  IF IsSupported(f.path) /\ f.readable /\ Strip(f.content) # <<>>
             THEN <<[file_path |-> f.path, content |-> f.content]>> \o LoadDocuments(Tail(files))
             ELSE LoadDocuments(Tail(files))

-----------------------------------------------------------------------------
(* ingest.py: chunk_text as a function of its arguments *)

ChunksOf(cs) == [hung |-> FALSE, chunks |-> cs]
\* the loop of lines 80-104 never ends
Hung == [hung |-> TRUE, chunks |-> <<>>]

RECURSIVE CarveFrom(_, _, _, _, _, _)
\* lines 80-104 from start offset s with acc appended so far; the loop visits
\* at most Len(t) + overlap + 1 start offsets before one repeats
CarveFrom(t, s, size, overlap, fuel, acc) ==
    IF s >= Len(t) THEN ChunksOf(acc)
    ELSE IF fuel = 0 THEN Hung
    ELSE CarveFrom(t, NextStart(t, CarveEnd(t, s, size), overlap), size, overlap, fuel - 1,
                   IF ChunkAt(t, s, CarveEnd(t, s, size)) # <<>>
                   THEN Append(acc, ChunkAt(t, s, CarveEnd(t, s, size)))
                   ELSE acc)

\* lines 62-106
ChunkText(t, size, overlap) ==
    IF FitsInOneChunk(t, size) THEN ChunksOf(<<t>>)
    ELSE CarveFrom(t, 0, size, overlap, Len(t) + overlap + 2, <<>>)

-----------------------------------------------------------------------------
(* ingest.py: ingest_documents, and the collection as ChromaDB keeps it *)

\* batch_size (line 175)
BatchSize == 100

EmptyCollection == [id \in {} |-> <<>>]

\* a stored item
Item(document, metadata) == [document |-> document, metadata |-> metadata]

\* an item an earlier ingestion of another directory left in the collection
StaleId == <<"o", "l", "d", "_", "c", "h", "u", "n", "k", "_", "0">>
StaleCollection ==
    [id \in {StaleId} |-> Item(<<"o">>, ChunkMetadata(<<"o", "/", "o", "l", "d", ".", "m", "d">>, 0, 1))]

\* the chunk settings a run may be given: (chunk_size, chunk_overlap)
ChunkSettings == {[chunk_size |-> 1, chunk_overlap |-> 0], [chunk_size |-> 2, chunk_overlap |-> 1]}

StoreError == "StoreError: the vector store failed"
DuplicateIDError == "DuplicateIDError: ids are not unique"

\* the ids, documents and metadatas handed to one collection.add call
Batch(ids, docs_, metas) == [ids |-> ids, documents |-> docs_, metadatas |-> metas]

AddOk(items) == [ok |-> TRUE, error |-> "", items |-> items]
AddFailed(error, items) == [ok |-> FALSE, error |-> error, items |-> items]

\* collection.add(ids=..., documents=..., metadatas=...): ids repeated within
\* the call are rejected; an id the collection holds is rejected or skipped,
\* as the installed store does; a failing store writes nothing
CollectionAdd(items, batch, existing, store_ok) ==
    LET n == Len(batch.ids)
        ids == {batch.ids[k] : k \in 1..n}
    IN  IF ~store_ok THEN AddFailed(StoreError, items)
        ELSE IF Cardinality(ids) < n THEN AddFailed(DuplicateIDError, items)
        ELSE IF existing = "rejected" /\ ids \cap DOMAIN items # {}
             THEN AddFailed(DuplicateIDError, items)
             ELSE AddOk([id \in DOMAIN items \cup ids |->
                           IF id \in DOMAIN items THEN items[id]
                           ELSE LET k == CHOOSE j \in 1..n : batch.ids[j] = id
                                IN  Item(batch.documents[k], batch.metadatas[k])])

\* reset_collection (retriever.py lines 237-273): delete, then create empty
ResetCollection(items) == EmptyCollection

\* the lists of a run carried over from the run before
FreshList_KeptAcrossRuns(previous) == previous

\* all_ids = [], all_documents = [], all_metadatas = [] (lines 148-150)
FreshList(previous) == <<>>

NoStats == [total_documents |-> 0, total_chunks |-> 0]
IngestNone == [kind |-> "none", error |-> "", stats |-> NoStats]
IngestReturned(stats) == [kind |-> "returned", error |-> "", stats |-> stats]
IngestRaised(error) == [kind |-> "raised", error |-> error, stats |-> NoStats]

\* one collection.add call of the run
Attempt(from, to, ok) == [from |-> from, to |-> to, ok |-> ok]

\* what a finished run leaves to compare
RunRecord(wasReset, result, ids, docs_, items) ==
    [reset |-> wasReset, result |-> result, ids |-> ids, documents |-> docs_, chroma |-> items]

\* the failed batch skipped and the loop carried on
AfterBatchError_Continue(error, batch_end) ==
    [ipc |-> "batches", batchStart |-> batch_end, result |-> IngestNone]

\* lines 191-193: the error is logged and raised again
AfterBatchError(error, batch_end) ==
    [ipc |-> "raised", batchStart |-> batch_end, result |-> IngestRaised(error)]

\* min(i + batch_size, total_chunks) (line 181)
BatchEnd(i, total) == IF i + BatchSize < total THEN i + BatchSize ELSE total

IngestInit ==
    /\ listing \in Listings
    /\ settings \in ChunkSettings
    /\ documents = <<>>
    /\ ipc = "start"
    /\ reset = FALSE
    /\ docIndex = 0
    /\ all_ids = <<>>
    /\ all_documents = <<>>
    /\ all_metadatas = <<>>
    /\ batchStart = 0
    /\ chroma \in {EmptyCollection, StaleCollection}
    /\ existingIds \in {"rejected", "skipped"}
    /\ ingestResult = IngestNone
    /\ attempts = <<>>
    /\ chromaAtStart = chroma
    /\ runLog = <<>>

\* ingest.py is not in use
IngestIdle ==
    /\ listing = <<>>
    /\ settings = [chunk_size |-> 1, chunk_overlap |-> 0]
    /\ documents = <<>>
    /\ ipc = "off"
    /\ reset = FALSE
    /\ docIndex = 0
    /\ all_ids = <<>>
    /\ all_documents = <<>>
    /\ all_metadatas = <<>>
    /\ batchStart = 0
    /\ chroma = EmptyCollection
    /\ existingIds = "skipped"
    /\ ingestResult = IngestNone
    /\ attempts = <<>>
    /\ chromaAtStart = EmptyCollection
    /\ runLog = <<>>

\* documents = load_documents_from_directory(args.docs_dir)
LoadDocumentsCall ==
    /\ ipc = "start"
    /\ documents' = LoadDocuments(listing)
    /\ ipc' = "loaded"
    /\ UNCHANGED <<listing, settings, reset, docIndex, all_ids, all_documents, all_metadatas,
                   batchStart, chroma, existingIds, ingestResult, attempts, chromaAtStart, runLog>>
    /\ UNCHANGED notIngestVars

\* a call ingest_documents(documents, reset=r) with nothing to ingest
\* (lines 129-131)
IngestNothing(r) ==
    /\ ipc \in {"loaded", "returned", "raised"}
    /\ Len(runLog) < MaxRuns
    /\ documents = <<>>
    /\ reset' = r
    /\ ingestResult' = IngestReturned(NoStats)
    /\ ipc' = "returned"
    /\ all_ids' = <<>>
    /\ all_documents' = <<>>
    /\ all_metadatas' = <<>>
    /\ attempts' = <<>>
    /\ docIndex' = 0
    /\ batchStart' = 0
    /\ chromaAtStart' = chroma
    /\ runLog' = Append(runLog, RunRecord(r, IngestReturned(NoStats), <<>>, <<>>, chroma))
    /\ UNCHANGED <<listing, settings, documents, chroma, existingIds>>
    /\ UNCHANGED notIngestVars

\* lines 129-150 of a call ingest_documents(documents, reset=r): the collection
\* is reset if asked and opened, the lists start empty; a store failure in
\* reset_collection or get_collection ends the run
IngestCall(r, store_ok) ==
    /\ ipc \in {"loaded", "returned", "raised"}
    /\ Len(runLog) < MaxRuns
    /\ documents # <<>>
    /\ reset' = r
    /\ attempts' = <<>>
    /\ docIndex' = 0
    /\ batchStart' = 0
    /\ all_ids' = FreshList(all_ids)
    /\ all_documents' = FreshList(all_documents)
    /\ all_metadatas' = FreshList(all_metadatas)
    /\ IF store_ok
       THEN /\ chroma' = IF r THEN ResetCollection(chroma) ELSE chroma
            /\ chromaAtStart' = chroma'
            /\ ingestResult' = IngestNone
            /\ ipc' = "chunking"
            /\ UNCHANGED runLog
       ELSE /\ ingestResult' = IngestRaised(StoreError)
            /\ ipc' = "raised"
            /\ chromaAtStart' = chroma
            /\ runLog' = Append(runLog, RunRecord(r, IngestRaised(StoreError), <<>>, <<>>, chroma))
            /\ UNCHANGED chroma
    /\ UNCHANGED <<listing, settings, documents, existingIds>>
    /\ UNCHANGED notIngestVars

\* lines 152-172: one document is chunked and its chunks, ids and metadata
\* are appended
IngestChunkDocument ==
    /\ ipc = "chunking"
    /\ docIndex < Len(documents)
    /\ \E doc \in {documents[docIndex + 1]} :
       \E chunked \in {ChunkText(doc.content, settings.chunk_size, settings.chunk_overlap)} :
       \E n \in {Len(chunked.chunks)} :
           IF chunked.hung
           THEN /\ ipc' = "hung"
                /\ UNCHANGED <<docIndex, all_ids, all_documents, all_metadatas>>
           ELSE /\ all_ids' = all_ids \o [i \in 1..n |-> ChunkId(doc.file_path, i - 1)]
                /\ all_documents' = all_documents \o chunked.chunks
                /\ all_metadatas' =
                       all_metadatas \o [i \in 1..n |-> ChunkMetadata(doc.file_path, i - 1, n)]
                /\ docIndex' = docIndex + 1
                /\ ipc' = IF docIndex + 1 = Len(documents) THEN "batches" ELSE "chunking"
    /\ UNCHANGED <<listing, settings, documents, reset, batchStart, chroma, existingIds,
                   ingestResult, attempts, chromaAtStart, runLog>>
    /\ UNCHANGED notIngestVars

\* lines 180-193: one pass of the batch loop
IngestBatch(store_ok) ==
    /\ ipc = "batches"
    /\ batchStart < Len(all_documents)
    /\ \E batch_end \in {BatchEnd(batchStart, Len(all_documents))} :
       \E batch \in {Batch(SubSeq(all_ids, batchStart + 1, batch_end),
                            SubSeq(all_documents, batchStart + 1, batch_end),
                            SubSeq(all_metadatas, batchStart + 1, batch_end))} :
       \E added \in {CollectionAdd(chroma, batch, existingIds, store_ok)} :
           /\ chroma' = added.items
           /\ attempts' = Append(attempts, Attempt(batchStart, batch_end, added.ok))
           /\ IF added.ok
              THEN /\ batchStart' = batch_end
                   /\ UNCHANGED <<ipc, ingestResult, runLog>>
              ELSE /\ batchStart' = AfterBatchError(added.error, batch_end).batchStart
                   /\ ipc' = AfterBatchError(added.error, batch_end).ipc
                   /\ ingestResult' = AfterBatchError(added.error, batch_end).result
                   /\ runLog' = IF AfterBatchError(added.error, batch_end).ipc = "raised"
                                THEN Append(runLog, RunRecord(reset, IngestRaised(added.error),
                                                              all_ids, all_documents, chroma))
                                ELSE runLog
    /\ UNCHANGED <<listing, settings, documents, reset, docIndex, all_ids, all_documents,
                   all_metadatas, existingIds, chromaAtStart>>
    /\ UNCHANGED notIngestVars

\* lines 195-200: every batch is written, the statistics are returned
IngestReturn ==
    /\ ipc = "batches"
    /\ batchStart >= Len(all_documents)
    /\ LET stats == [total_documents |-> Len(documents), total_chunks |-> Len(all_documents)]
       IN  /\ ingestResult' = IngestReturned(stats)
           /\ runLog' = Append(runLog, RunRecord(reset, IngestReturned(stats), all_ids,
                                                 all_documents, chroma))
    /\ ipc' = "returned"
    /\ UNCHANGED <<listing, settings, documents, reset, docIndex, all_ids, all_documents,
                   all_metadatas, batchStart, chroma, existingIds, attempts, chromaAtStart>>
    /\ UNCHANGED notIngestVars

-----------------------------------------------------------------------------
(* retriever.py: the two retrieval functions called on the same arguments *)

\* min_score in tenths: below every similarity, the default, in between, above
\* every similarity
MinScores == {-5, 0, 5, 11}

RetrieveCollections == {JNull, JStr("support_faq"), JStr("tenant_faq")}

NoRetrieveArgs == [top_k |-> 0, min_score |-> 0, collection_name |-> JNull, failure |-> "none"]

RetrieveInit ==
    /\ rtpc = "idle"
    /\ retrieveArgs = NoRetrieveArgs
    /\ contextResult = RetrieverReturns(<<>>)
    /\ documentsResult = RetrieverReturns(<<>>)

\* the retriever is not called directly
RetrieveIdle ==
    /\ rtpc = "off"
    /\ retrieveArgs = NoRetrieveArgs
    /\ contextResult = RetrieverReturns(<<>>)
    /\ documentsResult = RetrieverReturns(<<>>)

\* retrieve_relevant_context(query, top_k, min_score, collection_name)
RetrieveContextCall(top_k, min_score, collection_name, failure) ==
    /\ rtpc = "idle"
    /\ retrieveArgs' = [top_k |-> top_k, min_score |-> min_score,
                        collection_name |-> collection_name, failure |-> failure]
    /\ contextResult' = RetrieveRelevantContext(store, top_k, min_score, collection_name, failure)
    /\ documentsResult' = RetrieverReturns(<<>>)
    /\ rtpc' = "context"
    /\ UNCHANGED notRetrieveVars

\* retrieve_relevant_documents with the arguments of the call before, on the
\* same store
RetrieveDocumentsCall ==
    /\ rtpc = "context"
    /\ documentsResult' =
           RetrieveRelevantDocuments(store, retrieveArgs.top_k, retrieveArgs.min_score,
                                     retrieveArgs.collection_name, retrieveArgs.failure)
    /\ rtpc' = "documents"
    /\ UNCHANGED <<retrieveArgs, contextResult>>
    /\ UNCHANGED notRetrieveVars

-----------------------------------------------------------------------------
(* The analytics recorder called directly *)

\* the analytics file when the first call is made
FilesAtStart == {AbsentFile, GarbageFile, EmptyObjectFile, NotObjectFile, BadFieldFile}

RecordMessages == {MsgInvoice, MsgInstall, MsgOther}
RecordTenants == {JNull, JStr(""), JStr("acme")}
ResponseTimes == {JNull, JInt(2)}

NoRecordArgs ==
    [message |-> <<>>, fallback_used |-> FALSE, tenant_id |-> JNull, response_time_ms |-> JNull]

RecordInit ==
    /\ analyticsFile \in FilesAtStart
    /\ fileBefore = analyticsFile
    /\ recordArgs = NoRecordArgs
    /\ recordOutcome = NoRecord
    /\ recordCount = 0

RecordIdle ==
    /\ analyticsFile = AbsentFile
    /\ fileBefore = AbsentFile
    /\ recordArgs = NoRecordArgs
    /\ recordOutcome = NoRecord
    /\ recordCount = -1

\* record_support_interaction(message, fallback_used, tenant_id,
\* response_time_ms): the file is rewritten at line 92, which an exception
\* raised before it never reaches
RecordCall(msg, fallback, tenant, response_time_ms) ==
    /\ recordCount >= 0
    /\ recordCount < MaxCalls
    /\ \E outcome \in {RecordOutcome(analyticsFile, msg, fallback, tenant, response_time_ms)} :
          /\ recordOutcome' = outcome
          /\ analyticsFile' = IF outcome.kind = "returned" THEN SavedFile(outcome.doc)
                              ELSE analyticsFile
    /\ fileBefore' = analyticsFile
    /\ recordArgs' = [message |-> msg, fallback_used |-> fallback, tenant_id |-> tenant,
                      response_time_ms |-> response_time_ms]
    /\ recordCount' = recordCount + 1
    /\ UNCHANGED notRecordVars

-----------------------------------------------------------------------------
(* categorize_intent called directly *)

\* the words messages are made of
IntentWords ==
    {<<"I", "N", "V", "O", "I", "C", "E">>,
     <<"D", "e", "p", "l", "o", "y">>,
     <<"u", "s", "e">>,
     <<"H", "e", "l", "p">>,
     <<"b", "e", "c", "a", "u", "s", "e">>,
     <<"B", "i", "l", "l", "i", "n", "g">>,
     <<"a", "s", "d", "f">>,
     <<"q", "w", "e", "r", "t", "y">>,
     <<"d", "o", "c", "k", "E", "R">>,
     <<"B", "u", "g", "?">>}

\* the messages categorize_intent is called with: one word, two words, the
\* messages of the scenarios, the empty message
IntentMessages ==
    IntentWords \cup {a \o <<" ">> \o b : a \in IntentWords, b \in IntentWords}
        \cup {MsgInvoice, MsgInstall, MsgOther, <<>>}

IntentInit ==
    /\ intentMessage \in IntentMessages
    /\ intentResult = "none"
    /\ cipc = "call"

IntentIdle ==
    /\ intentMessage = <<>>
    /\ intentResult = "none"
    /\ cipc = "off"

\* categorize_intent(message)
CategorizeIntentCall ==
    /\ cipc = "call"
    /\ intentResult' = CategorizeIntent(intentMessage)
    /\ cipc' = "returned"
    /\ UNCHANGED intentMessage
    /\ UNCHANGED notIntentVars

-----------------------------------------------------------------------------
(* Two concurrent calls of record_support_interaction *)

\* the callers: two threads or two worker processes sharing ANALYTICS_FILE
RaceProcs == {1, 2}

\* the file before the calls: absent, or the document of one earlier call
OneRecordFile ==
    SavedFile(RecordSupportInteraction(AbsentFile, MsgOther, FALSE, JNull, JNull))
RaceFilesAtStart == {AbsentFile, OneRecordFile}

RaceMessages == {MsgInvoice, MsgOther}
RaceTenants == {JNull, JStr("acme")}

\* the document re-read from the file at the moment of the save
LoadedCopy_Reread(loaded, current) == current

\* line 63: metrics is the copy _load_metrics returned; nothing re-reads the
\* file before line 92 saves it
LoadedCopy(loaded, current) == loaded

RaceInit ==
    /\ raceFile \in RaceFilesAtStart
    /\ racePc = [p \in RaceProcs |-> "call"]
    /\ raceArgs = [p \in RaceProcs |-> NoRecordArgs]
    /\ raceLoaded = [p \in RaceProcs |-> AbsentFile]
    /\ racePending = [p \in RaceProcs |-> ZeroMetrics]
    /\ raceEarly = [p \in RaceProcs |-> FALSE]
    /\ raceSaving = FALSE
    /\ raceLast = 0

RaceIdle ==
    /\ raceFile = AbsentFile
    /\ racePc = [p \in RaceProcs |-> "off"]
    /\ raceArgs = [p \in RaceProcs |-> NoRecordArgs]
    /\ raceLoaded = [p \in RaceProcs |-> AbsentFile]
    /\ racePending = [p \in RaceProcs |-> ZeroMetrics]
    /\ raceEarly = [p \in RaceProcs |-> FALSE]
    /\ raceSaving = FALSE
    /\ raceLast = 0

\* line 63, _load_metrics (lines 32-46): caller p reads the file
RaceLoad(p, msg, fallback, tenant) ==
    /\ racePc[p] = "call"
    /\ raceArgs' = [raceArgs EXCEPT ![p] =
           [message |-> msg, fallback_used |-> fallback, tenant_id |-> tenant,
            response_time_ms |-> JInt(2)]]
    /\ raceLoaded' = [raceLoaded EXCEPT ![p] = raceFile]
    /\ raceEarly' = [raceEarly EXCEPT ![p] = ~raceSaving]
    /\ racePc' = [racePc EXCEPT ![p] = "loaded"]
    /\ UNCHANGED <<raceFile, racePending, raceSaving, raceLast>>
    /\ UNCHANGED notRaceVars

\* lines 64-90 and 49-51: p updates its copy and opens the file for writing,
\* which truncates it
RaceOpen(p) ==
    /\ racePc[p] = "loaded"
    /\ racePending' = [racePending EXCEPT ![p] =
           RecordSupportInteraction(LoadedCopy(raceLoaded[p], raceFile), raceArgs[p].message,
               raceArgs[p].fallback_used, raceArgs[p].tenant_id, raceArgs[p].response_time_ms)]
    /\ raceFile' = GarbageFile
    /\ raceSaving' = TRUE
    /\ racePc' = [racePc EXCEPT ![p] = "writing"]
    /\ UNCHANGED <<raceArgs, raceLoaded, raceEarly, raceLast>>
    /\ UNCHANGED notRaceVars

\* line 52: p's document is written from offset 0 and the file closed. If
\* another caller wrote the file after p truncated it, p's bytes replace the
\* head of that document: the file is p's document when p's text is at least
\* as long (longer_tail = FALSE), else p's document followed by the tail of
\* the other, which does not parse
RaceWrite(p, longer_tail) ==
    /\ racePc[p] = "writing"
    /\ longer_tail => raceFile.state = "ok"
    /\ raceFile' = IF longer_tail THEN GarbageFile ELSE SavedFile(racePending[p])
    /\ raceLast' = p
    /\ racePc' = [racePc EXCEPT ![p] = "done"]
    /\ UNCHANGED <<raceArgs, raceLoaded, racePending, raceEarly, raceSaving>>
    /\ UNCHANGED notRaceVars

-----------------------------------------------------------------------------
(* retriever.py: get_collection and reset_collection, called from two threads *)

HandleThreads == {1, 2}

NoHandleCall == [function |-> "none", collection_name |-> ""]

HandleInit ==
    /\ cachedCollection = "None"
    /\ handlePc = [t \in HandleThreads |-> "ready"]
    /\ handleCall = [t \in HandleThreads |-> NoHandleCall]
    /\ handleResult = [t \in HandleThreads |-> "None"]

HandleIdle ==
    /\ cachedCollection = "None"
    /\ handlePc = [t \in HandleThreads |-> "off"]
    /\ handleCall = [t \in HandleThreads |-> NoHandleCall]
    /\ handleResult = [t \in HandleThreads |-> "None"]

\* lines 71-72, the test: _collection is not None and _collection.name ==
\* collection_name
CacheHit(cached, name) == cached # "None" /\ cached = name

\* get_collection(name), lines 67-71: thread t tests the cached handle
GetCollectionCall(t, name) ==
    /\ handlePc[t] \in {"ready", "done"}
    /\ handleCall' = [handleCall EXCEPT ![t] = [function |-> "get_collection",
                                                collection_name |-> name]]
    /\ handleResult' = [handleResult EXCEPT ![t] = "None"]
    /\ handlePc' = [handlePc EXCEPT ![t] = IF CacheHit(cachedCollection, name) THEN "hit"
                                           ELSE "miss"]
    /\ UNCHANGED cachedCollection
    /\ UNCHANGED notHandleVars

\* line 72: return _collection, the global as it is now
GetCollectionReturnCached(t) ==
    /\ handlePc[t] = "hit"
    /\ handleResult' = [handleResult EXCEPT ![t] = cachedCollection]
    /\ handlePc' = [handlePc EXCEPT ![t] = "done"]
    /\ UNCHANGED <<cachedCollection, handleCall>>
    /\ UNCHANGED notHandleVars

\* lines 75-81: _collection = client.get_or_create_collection(name=...)
GetCollectionOpen(t) ==
    /\ handlePc[t] = "miss"
    /\ cachedCollection' = handleCall[t].collection_name
    /\ handlePc' = [handlePc EXCEPT ![t] = "assigned"]
    /\ UNCHANGED <<handleCall, handleResult>>
    /\ UNCHANGED notHandleVars

\* reset_collection(name), lines 250-266: the collection is deleted and
\* created anew, and _collection set to the new handle
ResetCollectionCall(t, name) ==
    /\ handlePc[t] \in {"ready", "done"}
    /\ handleCall' = [handleCall EXCEPT ![t] = [function |-> "reset_collection",
                                                collection_name |-> name]]
    /\ handleResult' = [handleResult EXCEPT ![t] = "None"]
    /\ cachedCollection' = name
    /\ handlePc' = [handlePc EXCEPT ![t] = "assigned"]
    /\ UNCHANGED notHandleVars

\* lines 83-86 and 268-269: _collection.count() and return _collection, the
\* global as it is now
HandleReturn(t) ==
    /\ handlePc[t] = "assigned"
    /\ handleResult' = [handleResult EXCEPT ![t] = cachedCollection]
    /\ handlePc' = [handlePc EXCEPT ![t] = "done"]
    /\ UNCHANGED <<cachedCollection, handleCall>>
    /\ UNCHANGED notHandleVars

-----------------------------------------------------------------------------
(* llm_client.py: LLMClient.generate under its retry decorator *)

\* stop_after_attempt(3)
MaxAttempts == 3

Providers == {"openai", "anthropic"}
ProviderTexts == {"answer one", "answer two"}
ProviderErrors == {"timeout", "rate limit"}

\* how a call of the provider's API ends
ProviderReturns(t) == [ok |-> TRUE, text |-> t, error |-> "none"]
ProviderRaises(e) == [ok |-> FALSE, text |-> "", error |-> e]
ProviderOutcomes ==
    {ProviderReturns(t) : t \in ProviderTexts} \cup {ProviderRaises(e) : e \in ProviderErrors}

\* lines 108-110: the message sent, with the context in front when there is one
FullUserMessage(user_message, context) ==
    IF context # <<>> THEN [context |-> context, question |-> user_message]
    ELSE [context |-> <<>>, question |-> user_message]

\* lines 126-128: any exception of an attempt becomes LLMClientError("Failed
\* to generate response: ...")
AttemptError(e) == [type |-> "LLMClientError", cause |-> e]

\* one run of the body of generate (lines 106-128)
Attempted(outcome) ==
    IF outcome.ok THEN [ok |-> TRUE, text |-> outcome.text, error |-> AttemptError("none")]
    ELSE [ok |-> FALSE, text |-> "", error |-> AttemptError(outcome.error)]

\* retry=retry_if_exception_type((Exception,)), stop=stop_after_attempt(3):
\* another attempt follows a failed one until MaxAttempts have been made
ShouldRetry(attempt_number, attempt) == ~attempt.ok /\ attempt_number < MaxAttempts

GenerateNone == [kind |-> "none", text |-> "", error |-> AttemptError("none")]
GenerateReturned(t) == [kind |-> "returned", text |-> t, error |-> AttemptError("none")]
GenerateRaised(err) == [kind |-> "raised", text |-> "", error |-> err]

\* the retry budget spent, the failure raised as tenacity's RetryError
OnExhausted_RetryError(last_error) ==
    GenerateRaised([type |-> "RetryError", cause |-> last_error.cause])

\* reraise=True (line 89): the exception of the last attempt is raised
OnExhausted(last_error) == GenerateRaised(last_error)

NoGenerateCall == [provider |-> "none", message |-> FullUserMessage(<<>>, <<>>)]

GenerateInit ==
    /\ gpc = "idle"
    /\ generateCall = NoGenerateCall
    /\ attemptLog = <<>>
    /\ generateResult = GenerateNone

GenerateIdle ==
    /\ gpc = "off"
    /\ generateCall = NoGenerateCall
    /\ attemptLog = <<>>
    /\ generateResult = GenerateNone

\* client.generate(system_prompt, user_message, context) is called
GenerateCall(provider, user_message, context) ==
    /\ gpc = "idle"
    /\ generateCall' = [provider |-> provider, message |-> FullUserMessage(user_message, context)]
    /\ attemptLog' = <<>>
    /\ generateResult' = GenerateNone
    /\ gpc' = "attempting"
    /\ UNCHANGED notGenerateVars

\* one attempt (lines 106-128) and the decision of the decorator (lines
\* 85-90): return the text, wait and try again, or raise
GenerateAttempt(outcome) ==
    /\ gpc = "attempting"
    /\ attemptLog' = Append(attemptLog, Attempted(outcome))
    /\ IF Attempted(outcome).ok
       THEN /\ generateResult' = GenerateReturned(Attempted(outcome).text)
            /\ gpc' = "returned"
       ELSE IF ShouldRetry(Len(attemptLog) + 1, Attempted(outcome))
            THEN /\ gpc' = "attempting"
                 /\ UNCHANGED generateResult
            ELSE /\ generateResult' = OnExhausted(Attempted(outcome).error)
                 /\ gpc' = "raised"
    /\ UNCHANGED generateCall
    /\ UNCHANGED notGenerateVars

-----------------------------------------------------------------------------
(* server.py: the chat endpoints *)

Endpoints == {"/chat", "/chat-with-retrieval", "/support-bot/query"}

\* `not s or not s.strip()` with the test for whitespace left out
IsBlank_EmptyOnly(s) == s = <<>>

\* `not s or not s.strip()` (lines 129, 188, 230, 233)
IsBlank(s) == s = <<>> \/ Strip(s) = <<>>

NoDetail == [text |-> "", error |-> ""]
NoBody == [kind |-> "none"]
HttpError(status, reason, error) ==
    [status |-> status, detail |-> [text |-> reason, error |-> error], body |-> NoBody]
HttpOk(body) == [status |-> 200, detail |-> NoDetail, body |-> body]
NoResponse == [status |-> 0, detail |-> NoDetail, body |-> NoBody]

\* every LLMClientError answered with 500
OnLLMClientError_Always500(endpoint, error) == HttpError(500, "Failed to generate response", error)

\* the `except LLMClientError` clauses: lines 152-157 and 211-216 answer 500
\* with "Failed to generate response: <error>", lines 243-245 answer 502 with
\* the error as detail
OnLLMClientError(endpoint, error) ==
    IF endpoint = "/support-bot/query" THEN HttpError(502, "", error)
    ELSE HttpError(500, "Failed to generate response", error)

\* the errors that are LLMClientError
IsLLMClientError(error) ==
    error \in {o.error : o \in GenerateFails} \cup {ClientConfigError}

\* lines 246-248: any other exception of run_support_bot_flow
OnOtherError(error) == HttpError(500, "Internal server error", "")

\* lines 132 and 147: context_used and the context passed to generate
ContextUsed(context) == context.t # "null" /\ Strip(context.s) # <<>>

\* the requests of the model
MsgPadded == <<" ">> \o MsgInvoice \o <<" ">>
RequestMessages == {<<>>, <<" ", "\n">>, MsgPadded}
RequestUsers == {<<>>, <<" ">>, <<" ", "u", "1">>}
RequestTenants == {JNull, JStr("acme")}
RequestContexts == {JNull, [t |-> "str", s |-> <<" ">>, n |-> 0], [t |-> "str", s |-> <<"c">>, n |-> 0]}

NoRequest ==
    [endpoint |-> "none", message |-> <<>>, user_id |-> <<>>, tenant_id |-> JNull,
     context |-> JNull]

\* the stores and the analytics file the server starts with
ServerStores ==
    {[support_faq |-> <<>>, tenant_faq |-> <<>>],
     [support_faq |-> <<DocA, DocB>>, tenant_faq |-> <<>>]}

ServerInit ==
    /\ spc = "idle"
    /\ httpRequest = NoRequest
    /\ httpResponse = NoResponse
    /\ handlerEffects = {}
    /\ callsBefore = 0
    /\ requestsServed = 0
    /\ store \in ServerStores
    /\ metricsFile = AbsentFile

ServerIdle ==
    /\ spc = "off"
    /\ httpRequest = NoRequest
    /\ httpResponse = NoResponse
    /\ handlerEffects = {}
    /\ callsBefore = 0
    /\ requestsServed = 0

\* lines 135-150 and 199-209: get_llm_client() and generate; client_ok says
\* whether LLMClient() can be constructed when there is no singleton yet
ChatGenerate(endpoint, message, context_used, client_ok, outcome) ==
    IF llmClient = "None" /\ ~client_ok
    THEN [response |-> OnLLMClientError(endpoint, ClientConfigError),
          effects |-> {"client_failed"}, client |-> "None"]
    ELSE IF outcome.ok
         THEN [response |-> HttpOk([kind |-> "chat", response |-> outcome.text,
                                    context_used |-> context_used]),
               effects |-> {"generate"}, client |-> "LLMClient"]
         ELSE [response |-> OnLLMClientError(endpoint, outcome.error),
               effects |-> {"generate", "generate_failed"}, client |-> "LLMClient"]

\* POST /chat (lines 112-160)
Chat(message, context, client_ok, outcome) ==
    /\ spc \in {"idle", "responded"}
    /\ requestsServed < MaxCalls
    /\ httpRequest' = [NoRequest EXCEPT !.endpoint = "/chat", !.message = message,
                                        !.context = context]
    /\ IF IsBlank(message)
       THEN /\ httpResponse' = HttpError(400, "Message cannot be empty", "")
            /\ handlerEffects' = {}
            /\ UNCHANGED llmClient
       ELSE \E r \in {ChatGenerate("/chat", message, ContextUsed(context), client_ok, outcome)} :
               /\ httpResponse' = r.response
               /\ handlerEffects' = r.effects
               /\ llmClient' = r.client
    /\ callsBefore' = calls
    /\ requestsServed' = requestsServed + 1
    /\ spc' = "responded"
    /\ UNCHANGED notChatVars

\* POST /chat-with-retrieval (lines 170-223); retrieve_relevant_context
\* returns a text whatever the store does
ChatWithRetrieval(message, failure, client_ok, outcome) ==
    /\ spc \in {"idle", "responded"}
    /\ requestsServed < MaxCalls
    /\ httpRequest' = [NoRequest EXCEPT !.endpoint = "/chat-with-retrieval",
                                        !.message = message]
    /\ IF IsBlank(message)
       THEN /\ httpResponse' = HttpError(400, "Message cannot be empty", "")
            /\ handlerEffects' = {}
            /\ UNCHANGED llmClient
       ELSE \E retrieved \in {RetrieveRelevantContext(store, 3, DefaultMinScore, JNull, failure)} :
            \E r \in {ChatGenerate("/chat-with-retrieval", message, TRUE, client_ok, outcome)} :
               /\ ~retrieved.raised
               /\ httpResponse' = r.response
               /\ handlerEffects' = {"retrieve"} \cup r.effects
               /\ llmClient' = r.client
    /\ callsBefore' = calls
    /\ requestsServed' = requestsServed + 1
    /\ spc' = "responded"
    /\ UNCHANGED notChatVars

\* POST /support-bot/query, lines 226-234: the request is validated
SupportBotQuery(user_id, message, tenant_id) ==
    /\ spc \in {"idle", "responded"}
    /\ fpc \in {"idle", "DONE", "FAILED"}
    /\ requestsServed < MaxCalls
    /\ httpRequest' = [NoRequest EXCEPT !.endpoint = "/support-bot/query", !.message = message,
                                        !.user_id = user_id, !.tenant_id = tenant_id]
    /\ handlerEffects' = {}
    /\ callsBefore' = calls
    /\ IF IsBlank(message)
       THEN /\ httpResponse' = HttpError(400, "Message cannot be empty", "")
            /\ requestsServed' = requestsServed + 1
            /\ spc' = "responded"
       ELSE IF IsBlank(user_id)
            THEN /\ httpResponse' = HttpError(400, "user_id is required", "")
                 /\ requestsServed' = requestsServed + 1
                 /\ spc' = "responded"
            ELSE /\ httpResponse' = NoResponse
                 /\ UNCHANGED requestsServed
                 /\ spc' = "validated"
    /\ UNCHANGED <<flowVars, chunkVars, tenantVars, ingestVars, retrieveVars, recordVars,
                   intentVars, raceVars, handleVars, generateVars>>

\* lines 237-241: run_support_bot_flow(user_id.strip(), message.strip(),
\* tenant_id.strip() if tenant_id else None) is called
SupportBotRunFlow ==
    /\ spc = "validated"
    /\ calls = callsBefore
    /\ FlowCall(Strip(httpRequest.user_id), Strip(httpRequest.message), httpRequest.tenant_id)

\* lines 242-248: the result of the flow answered, or its error mapped
SupportBotRespond ==
    /\ spc = "validated"
    /\ calls > callsBefore
    /\ fpc \in {"DONE", "FAILED"}
    /\ httpResponse' =
          IF flowResult.kind = "returned"
          THEN HttpOk([kind |-> "support", result |-> flowResult.response])
          ELSE IF IsLLMClientError(flowResult.error)
               THEN OnLLMClientError("/support-bot/query", flowResult.error)
               ELSE OnOtherError(flowResult.error)
    /\ requestsServed' = requestsServed + 1
    /\ spc' = "responded"
    /\ UNCHANGED <<httpRequest, handlerEffects, callsBefore>>
    /\ UNCHANGED <<flowVars, chunkVars, tenantVars, ingestVars, retrieveVars, recordVars,
                   intentVars, raceVars, handleVars, generateVars>>

-----------------------------------------------------------------------------
(* Specifications *)

\* chunk_text applied to every text and parameter pair of the bounds
ChunkNext == ChunkWhole \/ ChunkEnterLoop \/ ChunkLoopStep \/ ChunkReturn

InitChunk == ChunkInit /\ TenantIdle /\ FlowIdle /\ IngestIdle /\ RetrieveIdle
    /\ RecordIdle /\ IntentIdle
    /\ RaceIdle
    /\ HandleIdle
    /\ GenerateIdle
    /\ ServerIdle

SpecChunk == InitChunk /\ [][ChunkNext]_vars

\* the module import and _resolve_config over every override file of the bounds
ResolveNext == ImportSupportBot \/ (\E tid \in TenantIdArgs : ResolveConfigCall(tid))

InitResolve == TenantInit /\ ChunkIdle /\ FlowIdle /\ IngestIdle /\ RetrieveIdle
    /\ RecordIdle /\ IntentIdle
    /\ RaceIdle
    /\ HandleIdle
    /\ GenerateIdle
    /\ ServerIdle

SpecResolve == InitResolve /\ [][ResolveNext]_vars

\* run_support_bot_flow called over every store, override file and caller of
\* the bounds
FlowNext ==
    \/ \E uid \in FlowUsers, msg \in FlowMessages, tid \in FlowTenantArgs : FlowCall(uid, msg, tid)
    \/ FlowResolveConfig
    \/ FlowRetrieve
    \/ FlowClientUnavailable
    \/ \E outcome \in GenerateSucceeds \cup GenerateFails : FlowGenerate(outcome)
    \/ FlowFallback
    \/ FlowRecord
    \/ FlowReturn

InitFlow == FlowInit /\ TenantLoaded /\ ChunkIdle /\ IngestIdle /\ RetrieveIdle
    /\ RecordIdle /\ IntentIdle
    /\ RaceIdle
    /\ HandleIdle
    /\ GenerateIdle
    /\ ServerIdle

SpecFlow == InitFlow /\ [][FlowNext]_vars

\* the directory loader, then runs of ingest_documents over what it loaded
IngestNext ==
    \/ LoadDocumentsCall
    \/ \E r \in BOOLEAN : IngestNothing(r)
    \/ \E r \in BOOLEAN, store_ok \in BOOLEAN : IngestCall(r, store_ok)
    \/ IngestChunkDocument
    \/ \E store_ok \in BOOLEAN : IngestBatch(store_ok)
    \/ IngestReturn

InitIngest == IngestInit /\ ChunkIdle /\ TenantIdle /\ FlowIdle /\ RetrieveIdle
    /\ RecordIdle /\ IntentIdle
    /\ RaceIdle
    /\ HandleIdle
    /\ GenerateIdle
    /\ ServerIdle

SpecIngest == InitIngest /\ [][IngestNext]_vars

\* the two retrieval functions over every store and argument of the bounds
RetrieveNext ==
    \/ \E top_k \in 0..MaxTopK, min_score \in MinScores, name \in RetrieveCollections,
          failure \in {"none"} \cup StoreFailures :
            RetrieveContextCall(top_k, min_score, name, failure)
    \/ RetrieveDocumentsCall

InitRetrieve ==
    RetrieveInit /\ FlowQuiet /\ store \in FlowStores /\ ChunkIdle /\ TenantIdle /\ IngestIdle
    /\ RecordIdle /\ IntentIdle
    /\ RaceIdle
    /\ HandleIdle
    /\ GenerateIdle
    /\ ServerIdle

SpecRetrieve == InitRetrieve /\ [][RetrieveNext]_vars

\* calls of record_support_interaction
RecordNext ==
    \E msg \in RecordMessages, fallback \in BOOLEAN, tenant \in RecordTenants,
       response_time_ms \in ResponseTimes :
        RecordCall(msg, fallback, tenant, response_time_ms)

InitRecord ==
    RecordInit /\ ChunkIdle /\ TenantIdle /\ FlowIdle /\ IngestIdle /\ RetrieveIdle /\ IntentIdle
    /\ RaceIdle
    /\ HandleIdle
    /\ GenerateIdle
    /\ ServerIdle

SpecRecord == InitRecord /\ [][RecordNext]_vars

\* one call of categorize_intent
IntentNext == CategorizeIntentCall

InitIntent ==
    IntentInit /\ ChunkIdle /\ TenantIdle /\ FlowIdle /\ IngestIdle /\ RetrieveIdle /\ RecordIdle
    /\ RaceIdle
    /\ HandleIdle
    /\ GenerateIdle
    /\ ServerIdle

SpecIntent == InitIntent /\ [][IntentNext]_vars

\* two callers of record_support_interaction, each step of one of them
RaceNext ==
    \/ \E p \in RaceProcs, msg \in RaceMessages, fallback \in BOOLEAN, tenant \in RaceTenants :
          RaceLoad(p, msg, fallback, tenant)
    \/ \E p \in RaceProcs : RaceOpen(p)
    \/ \E p \in RaceProcs, longer_tail \in BOOLEAN : RaceWrite(p, longer_tail)

InitRace ==
    RaceInit /\ ChunkIdle /\ TenantIdle /\ FlowIdle /\ IngestIdle /\ RetrieveIdle /\ RecordIdle
    /\ IntentIdle
    /\ HandleIdle
    /\ GenerateIdle
    /\ ServerIdle

SpecRace == InitRace /\ [][RaceNext]_vars

\* two threads calling get_collection and reset_collection, each step of one
\* of them
HandleNext ==
    \/ \E t \in HandleThreads, name \in CollectionNames : GetCollectionCall(t, name)
    \/ \E t \in HandleThreads : GetCollectionReturnCached(t)
    \/ \E t \in HandleThreads : GetCollectionOpen(t)
    \/ \E t \in HandleThreads, name \in CollectionNames : ResetCollectionCall(t, name)
    \/ \E t \in HandleThreads : HandleReturn(t)

InitHandle ==
    HandleInit /\ ChunkIdle /\ TenantIdle /\ FlowIdle /\ IngestIdle /\ RetrieveIdle /\ RecordIdle
    /\ IntentIdle /\ RaceIdle
    /\ GenerateIdle
    /\ ServerIdle

SpecHandle == InitHandle /\ [][HandleNext]_vars

\* one call of LLMClient.generate and its attempts
GenerateNext ==
    \/ \E provider \in Providers, user_message \in {MsgInvoice, MsgOther},
          context \in {<<>>, <<"x">>} : GenerateCall(provider, user_message, context)
    \/ \E outcome \in ProviderOutcomes : GenerateAttempt(outcome)

InitGenerate ==
    GenerateInit /\ ChunkIdle /\ TenantIdle /\ FlowIdle /\ IngestIdle /\ RetrieveIdle /\ RecordIdle
    /\ IntentIdle /\ RaceIdle /\ HandleIdle
    /\ ServerIdle

SpecGenerate == InitGenerate /\ [][GenerateNext]_vars

\* the server: one request at a time, the support bot's flow run inside its
\* request
ServerNext ==
    \/ \E message \in RequestMessages, context \in RequestContexts, client_ok \in BOOLEAN,
          outcome \in GenerateSucceeds \cup GenerateFails :
          Chat(message, context, client_ok, outcome)
    \/ \E message \in RequestMessages, failure \in {"none", "query"}, client_ok \in BOOLEAN,
          outcome \in GenerateSucceeds \cup GenerateFails :
          ChatWithRetrieval(message, failure, client_ok, outcome)
    \/ \E user_id \in RequestUsers, message \in RequestMessages, tenant_id \in RequestTenants :
          SupportBotQuery(user_id, message, tenant_id)
    \/ SupportBotRunFlow
    \/ FlowResolveConfig
    \/ FlowRetrieve
    \/ FlowClientUnavailable
    \/ \E outcome \in GenerateSucceeds \cup GenerateFails : FlowGenerate(outcome)
    \/ FlowFallback
    \/ FlowRecord
    \/ FlowReturn
    \/ SupportBotRespond

InitServer ==
    ServerInit /\ FlowInit /\ TenantLoaded /\ ChunkIdle /\ IngestIdle /\ RetrieveIdle
    /\ RecordIdle /\ IntentIdle /\ RaceIdle /\ HandleIdle /\ GenerateIdle

SpecServer == InitServer /\ [][ServerNext]_vars

-----------------------------------------------------------------------------
(* chunk_text: properties *)

\* the pairs the chunker's contract calls valid
ValidChunkParams == chunk_size >= 1 /\ chunk_overlap >= 0 /\ chunk_overlap < chunk_size

\* the offsets of the iterations begun so far
VisitedStarts == {visited[i] : i \in 1..Len(visited)}

\* C8: whenever len(text) <= chunk_size, whatever chunk_size and chunk_overlap
\* are, chunk_text returns the one-element list [text], the text unmodified.
C8_ShortTextIsOneChunk ==
    (cpc = "returned" /\ Len(text) <= chunk_size) => chunks = <<text>>

\* a text with whitespace at its edge, exactly chunk_size long, has been returned
C8_Witness ==
    /\ cpc = "returned"
    /\ Len(text) = chunk_size
    /\ Len(text) > 0
    /\ IsSpace(text[Len(text)])
    /\ chunks = <<text>>

\* C9: for a valid pair the carve loop terminates.  The loop body is a function
\* of start alone (text, chunk_size and chunk_overlap never change), so the
\* loop fails to terminate exactly when an iteration is about to begin at an
\* offset an earlier iteration began at; termination says this never happens.
C9_CarveLoopTerminates ==
    ValidChunkParams => ~(cpc = "loop" /\ start < Len(text) /\ start \in VisitedStarts)

\* C10: for a text longer than chunk_size and a valid pair, every
\* non-whitespace offset of the text lies inside a returned chunk.
C10_NoCharacterDropped ==
    (cpc = "returned" /\ ValidChunkParams /\ Len(text) > chunk_size)
        => \A i \in 0..(Len(text) - 1) : ~IsSpace(text[i + 1]) => i \in covered

-----------------------------------------------------------------------------
(* Tenant configuration: properties *)

\* the base configuration under the tenant id "default"
BaseAsDefault == Resolved(WithTenant(BASE_SUPPORT_CONFIG, JStr("default")))

\* C5: whatever the override set holds, _resolve_config(None) and
\* _resolve_config("default") both return the base configuration with
\* tenant_id = "default" (and so return the same configuration).
C5_NoneAndDefaultAreBase ==
    (rpc = "resolved" /\ resolveArg \in {JNull, JStr("default")})
        => resolveResult = BaseAsDefault

\* C6: for a tenant id with a record, each of collection, fallback and
\* system_prompt resolves to the record's value when the record has the field
\* and to the base value otherwise, and top_k to the record's value coerced to
\* an integer, else the base value; a tenant id with no record resolves to the
\* base configuration under that tenant id.  (A top_k that int() rejects gives
\* no configuration at all: that case is C7's.)
C6_FieldByFieldMerge ==
    (rpc = "resolved" /\ Truthy(resolveArg)) =>
        IF resolveArg.s \notin DOMAIN TENANT_OVERRIDES
        THEN resolveResult = Resolved(WithTenant(BASE_SUPPORT_CONFIG, resolveArg))
        ELSE LET rec == TENANT_OVERRIDES[resolveArg.s]
                 c == resolveResult.config
             IN  ("top_k" \in DOMAIN rec => IntOf(rec["top_k"]).ok) =>
                    /\ resolveResult.ok
                    /\ c.tenant_id = resolveArg
                    /\ \A f \in {"collection", "fallback", "system_prompt"} :
                          c[f] = IF f \in DOMAIN rec THEN rec[f] ELSE BASE_SUPPORT_CONFIG[f]
                    /\ c.top_k = IF "top_k" \in DOMAIN rec
                                 THEN JInt(IntOf(rec["top_k"]).n)
                                 ELSE BASE_SUPPORT_CONFIG.top_k

\* a tenant whose record gives top_k (as the string "7") and fallback only has
\* been resolved: top_k is the integer 7, the fallback is the tenant's, and the
\* collection and the prompt are the base's
C6_Witness ==
    /\ rpc = "resolved"
    /\ resolveArg = JStr("acme")
    /\ "acme" \in DOMAIN TENANT_OVERRIDES
    /\ DOMAIN TENANT_OVERRIDES["acme"] = {"tenant_id", "top_k", "fallback"}
    /\ TENANT_OVERRIDES["acme"]["top_k"] = JStr("7")
    /\ resolveResult.ok
    /\ resolveResult.config.top_k = JInt(7)
    /\ resolveResult.config.fallback = JStr("tenant fallback")
    /\ resolveResult.config.collection = BASE_SUPPORT_CONFIG.collection
    /\ resolveResult.config.system_prompt = BASE_SUPPORT_CONFIG.system_prompt

\* C7: whatever the override file holds, _load_tenant_overrides does not fail
\* and, once it has run, _resolve_config returns a configuration for every
\* tenant id without failing.
C7_MalformedOverridesNeverFatal ==
    /\ rpc \in {"ready", "resolved"} => ~loadRaised
    /\ rpc = "resolved" => resolveResult.ok

-----------------------------------------------------------------------------
(* run_support_bot_flow: properties *)

\* the call has gone past the branch of line 113
BranchTaken == fpc \in {"GENERATED", "FALLBACK", "RECORDED", "DONE"} \/ generateCalls > 0

\* C1: generate is invoked if and only if retrieval returned at least one
\* document; with zero documents the response carries the resolved
\* configuration's fallback text, fallback_used = true, no sources and a null
\* retrieved_context, and generate has not been called in that invocation.
C1_GenerateIffDocsRetrieved ==
    /\ generateCalls > 0 => docs # <<>>
    /\ (BranchTaken /\ docs # <<>>) => generateCalls = 1
    /\ (BranchTaken /\ docs = <<>>) => generateCalls = 0
    /\ (flowResult.kind = "returned" /\ docs = <<>>) =>
          /\ config = ResolveConfig(TENANT_OVERRIDES, args.tenant_id).config
          /\ flowResult.response.answer = config.fallback
          /\ flowResult.response.fallback_used
          /\ flowResult.response.sources = <<>>
          /\ flowResult.response.retrieved_context.none
          /\ generateCalls = 0

\* a call for tenant acme that retrieved nothing and answered with the
\* tenant's own fallback text
C1_Witness ==
    /\ flowResult.kind = "returned"
    /\ docs = <<>>
    /\ args.tenant_id = JStr("acme")
    /\ flowResult.response.answer = JStr("tenant fallback")
    /\ flowResult.response.fallback_used
    /\ generateCalls = 0

\* the name line 85 gives a document, read off its metadata
NameOf(d) ==
    IF "filename" \in DOMAIN d.metadata /\ d.metadata["filename"] # <<>>
    THEN d.metadata["filename"]
    ELSE IF "source" \in DOMAIN d.metadata /\ d.metadata["source"] # <<>>
         THEN d.metadata["source"]
         ELSE <<"f", "a", "q">>

\* C2: with n >= 1 retrieved documents the response has fallback_used = false,
\* a non-null retrieved_context and n source names in the ranked order, each
\* the filename, else the source, else "faq"; generate was given the resolved
\* tenant's system_prompt and the context formatted from the same n documents
\* in the same order.
C2_SourcesAndContextFromRankedDocs ==
    (flowResult.kind = "returned" /\ Len(docs) >= 1) =>
        /\ ~flowResult.response.fallback_used
        /\ ~flowResult.response.retrieved_context.none
        /\ Len(flowResult.response.sources) = Len(docs)
        /\ \A i \in 1..Len(docs) : flowResult.response.sources[i] = NameOf(docs[i])
        /\ generateCalls = 1
        /\ generateArgs.system_prompt =
               ResolveConfig(TENANT_OVERRIDES, args.tenant_id).config.system_prompt
        /\ generateArgs.context = flowResult.response.retrieved_context.text
        /\ generateArgs.context =
               JoinBlocks([i \in 1..Len(docs) |->
                   StrSource \o NameOf(docs[i]) \o ParagraphBreak \o Strip(docs[i].content)])

\* a call that retrieved three documents: one named by its filename, one by its
\* source, one with no metadata
C2_Witness ==
    /\ flowResult.kind = "returned"
    /\ Len(docs) = 3
    /\ flowResult.response.sources = <<<<"f">>, <<"t">>, <<"f", "a", "q">>>>
    /\ generateArgs.system_prompt = JStr("base prompt")

\* the bucket of a tenant in a metrics document
BucketOf(doc, key) ==
    IF key \in DOMAIN doc.tenant_breakdown THEN doc.tenant_breakdown[key] ELSE ZeroTenantStats

\* the call has recorded exactly one interaction, under the tenant id of the
\* resolved configuration
RecordedOnceUnderResolvedTenant ==
    /\ recordCalls = 1
    /\ config.tenant_id = (IF Truthy(args.tenant_id) THEN args.tenant_id ELSE JStr("default"))
    /\ metricsFile.state = "ok"
    /\ metricsFile.doc.total_queries = LoadMetrics(metricsBefore).total_queries + 1
    /\ config.tenant_id.s \in DOMAIN metricsFile.doc.tenant_breakdown
    /\ \A key \in DOMAIN metricsFile.doc.tenant_breakdown :
          BucketOf(metricsFile.doc, key).queries =
              BucketOf(LoadMetrics(metricsBefore), key).queries
                  + (IF key = config.tenant_id.s THEN 1 ELSE 0)

\* C3 as stated: every invocation, however it ends, has recorded the
\* interaction exactly once under the resolved tenant id.
C3_EveryInvocationRecordsOnce ==
    fpc \in {"DONE", "FAILED"} => RecordedOnceUnderResolvedTenant

\* C3, amended: every invocation that returns a response has recorded the
\* interaction exactly once, in the generation and in the fallback branch,
\* under the tenant id of the resolved configuration ("default" when the input
\* tenant_id is absent), which is the tenant_id of the response; an invocation
\* that ends in an error has recorded nothing.
C3_ReturnedInvocationRecordsOnce ==
    /\ flowResult.kind = "returned" =>
          /\ RecordedOnceUnderResolvedTenant
          /\ flowResult.response.tenant_id = config.tenant_id
    /\ flowResult.kind = "raised" => (recordCalls = 0 /\ metricsFile = metricsBefore)

\* the second call, for tenant acme after a call without a tenant, returned
\* from the generation branch with its record in acme's bucket
C3_Witness ==
    /\ flowResult.kind = "returned"
    /\ calls = 2
    /\ ~fallback_used
    /\ args.tenant_id = JStr("acme")
    /\ flowResult.response.tenant_id = JStr("acme")
    /\ "default" \in DOMAIN metricsFile.doc.tenant_breakdown
    /\ BucketOf(metricsFile.doc, "acme").queries = 1

\* C4: when generate fails, the flow ends with that same error: nothing
\* catches it, no fallback answer takes its place, and generate is called at
\* most once in an invocation.
C4_GenerationFailurePropagates ==
    /\ generateCalls <= 1
    /\ (generateCalls = 1 /\ ~generateOutcome.ok) =>
          /\ fpc = "FAILED"
          /\ flowResult.kind = "raised"
          /\ flowResult.error = generateOutcome.error
          /\ ~fallback_used
          /\ answer # config.fallback

\* generate raised a rate-limit error and the call ended with it
C4_Witness ==
    /\ generateCalls = 1
    /\ ~generateOutcome.ok
    /\ flowResult = Raised("LLMClientError: Failed to generate response: rate limit")
    /\ docs # <<>>

-----------------------------------------------------------------------------
(* ingest_documents: properties *)

\* the run has assigned every chunk its id
IdsAssigned == ipc \in {"batches", "returned", "raised"} /\ all_ids # <<>>

\* C11: within one run of ingest_documents over the documents the directory
\* loader produced, the chunk ids "<source-stem>_chunk_<index>" of all chunks
\* are pairwise distinct.
C11_ChunkIdsPairwiseDistinct ==
    IdsAssigned => Cardinality({all_ids[k] : k \in 1..Len(all_ids)}) = Len(all_ids)

\* a finished run that reset the collection and returned its statistics
ResetRunReturned(run) == run.reset /\ run.result.kind = "returned"

\* C12: two runs of ingest_documents with reset = true over the same documents
\* and chunk settings return the same total_chunks, give the same id to the
\* same chunk text, and leave the collection with the same contents.
C12_ResetIngestionIdempotent ==
    \A i, j \in 1..Len(runLog) :
        (i < j /\ ResetRunReturned(runLog[i]) /\ ResetRunReturned(runLog[j])) =>
            /\ runLog[i].result.stats.total_chunks = runLog[j].result.stats.total_chunks
            /\ runLog[i].ids = runLog[j].ids
            /\ runLog[i].documents = runLog[j].documents
            /\ runLog[i].chroma = runLog[j].chroma

\* two runs with reset over six long documents, three batches each, the first
\* of them into a collection that held a stale item
C12_Witness ==
    /\ Len(runLog) = 2
    /\ ResetRunReturned(runLog[1])
    /\ ResetRunReturned(runLog[2])
    /\ runLog[2].result.stats.total_chunks > 2 * BatchSize
    /\ Cardinality(DOMAIN runLog[2].chroma) = runLog[2].result.stats.total_chunks

\* the ids of all_ids[from:to]
IdsBetween(from, to) == {all_ids[k] : k \in (from + 1)..to}

\* the ids of the batches written so far in the run
WrittenIds ==
    UNION {IdsBetween(attempts[k].from, attempts[k].to) :
              k \in {a \in 1..Len(attempts) : attempts[a].ok}}

\* C13: the chunks are written in consecutive batches of at most 100 in list
\* order; when the write of a batch fails the run ends with the store's error,
\* the batches before it stay in the collection, and no later batch is
\* attempted.
C13_BatchesInOrderAbortOnFailure ==
    /\ \A k \in 1..Len(attempts) :
          /\ attempts[k].from = (IF k = 1 THEN 0 ELSE attempts[k - 1].to)
          /\ attempts[k].from < attempts[k].to
          /\ attempts[k].to - attempts[k].from <= 100
          /\ attempts[k].to = Len(all_ids) \/ attempts[k].to - attempts[k].from = 100
          /\ ~attempts[k].ok =>
                /\ k = Len(attempts)
                /\ ipc = "raised"
                /\ ingestResult.kind = "raised"
                /\ ingestResult.error \in {StoreError, DuplicateIDError}
    /\ attempts # <<>> =>
          /\ WrittenIds \subseteq DOMAIN chroma
          /\ DOMAIN chroma \subseteq DOMAIN chromaAtStart \cup WrittenIds
    /\ (ipc = "returned" /\ all_ids # <<>>) =>
          /\ attempts[Len(attempts)].to = Len(all_ids)
          /\ \A k \in 1..Len(attempts) : attempts[k].ok

\* the second of three batches failed: the first batch is in the collection,
\* the third was never attempted
C13_Witness ==
    /\ ipc = "raised"
    /\ Len(all_ids) > 200
    /\ Len(attempts) = 2
    /\ attempts[1].ok
    /\ ~attempts[2].ok
    /\ ingestResult.error = StoreError
    /\ IdsBetween(0, 100) \subseteq DOMAIN chroma
    /\ IdsBetween(100, Len(all_ids)) \cap DOMAIN chroma = {}

-----------------------------------------------------------------------------
(* The retriever: properties *)

\* the collection the call reads, and the results the store ranks for it
CalledCollection == CollectionOf(store, CollectionName(retrieveArgs.collection_name))
CalledResults ==
    SubSeq(CalledCollection, 1,
           IF retrieveArgs.top_k < Len(CalledCollection) THEN retrieveArgs.top_k
           ELSE Len(CalledCollection))

\* the positions of the results whose similarity, 1 - distance, is at least
\* min_score
Surviving ==
    {i \in 1..Len(CalledResults) : 10 - CalledResults[i].distance >= retrieveArgs.min_score}

\* the store worked all through the call
StoreWorked ==
    /\ retrieveArgs.failure = "none"
    /\ retrieveArgs.top_k >= 1 \/ CalledCollection = <<>>

RECURSIVE JoinedByRule(_)
\* the texts of q with "\n\n---\n\n" between them
JoinedByRule(q) ==
    IF Len(q) = 0 THEN <<>>
    ELSE IF Len(q) = 1 THEN q[1]
    ELSE q[1] \o <<"\n", "\n", "-", "-", "-", "\n", "\n">> \o JoinedByRule(Tail(q))

\* the contents of the surviving results in ranked order
SurvivingContents == Pick([i \in 1..Len(CalledResults) |-> CalledResults[i].content], Surviving)

StartsWith(s, prefix) == Len(s) >= Len(prefix) /\ SubSeq(s, 1, Len(prefix)) = prefix

\* C15: no failure of the vector store (client, collection, count, query)
\* leaves the retriever as an exception: retrieve_relevant_context returns a
\* string carrying the error indicator and retrieve_relevant_documents an
\* empty list.
C15_StoreFailuresNeverPropagate ==
    /\ ~contextResult.raised
    /\ ~documentsResult.raised
    /\ (rtpc \in {"context", "documents"} /\ ~StoreWorked) =>
          /\ StartsWith(contextResult.value, ErrorPrefix)
          /\ Len(contextResult.value) > Len(ErrorPrefix) + 1
    /\ (rtpc = "documents" /\ ~StoreWorked) => documentsResult.value = <<>>

\* count() failed in both calls
C15_Witness ==
    /\ rtpc = "documents"
    /\ retrieveArgs.failure = "count"
    /\ contextResult.value = ErrorPrefix \o ErrorText("count") \o <<"]">>
    /\ documentsResult = RetrieverReturns(<<>>)

\* the text form returned one of its sentinels
IsSentinel(s) ==
    \/ s \in {EmptyKnowledgeBase, NoRelevantDocuments, BelowThreshold}
    \/ StartsWith(s, ErrorPrefix)

ResultOf(rec) == CHOOSE d \in {CalledResults[i] : i \in 1..Len(CalledResults)} : d.id = rec.id

\* the records retrieve_relevant_documents returned
ReturnedRecords == {documentsResult.value[i] : i \in 1..Len(documentsResult.value)}

\* C17 as stated: every returned record has score = 1 - distance >= min_score,
\* and with distances in [0,2] the score lies in [0,1] whatever min_score is.
C17_ScoreInUnitInterval ==
    rtpc = "documents" =>
        \A rec \in ReturnedRecords :
            /\ rec.score = 10 - ResultOf(rec).distance
            /\ rec.score >= retrieveArgs.min_score
            /\ 0 <= rec.score /\ rec.score <= 10

\* C17, amended: every returned record has score = 1 - distance >= min_score;
\* with distances in [0,2] the score lies in [-1,1], and in [0,1] when
\* min_score >= 0, as with the default 0.0.
C17_ScoreIsOneMinusDistance ==
    rtpc = "documents" =>
        \A rec \in ReturnedRecords :
            /\ rec.score = 10 - ResultOf(rec).distance
            /\ rec.score >= retrieveArgs.min_score
            /\ -10 <= rec.score /\ rec.score <= 10
            /\ retrieveArgs.min_score >= 0 => 0 <= rec.score

\* a record at distance 1.3 returned with score -0.3 under min_score = -0.5
C17_Witness ==
    /\ rtpc = "documents"
    /\ retrieveArgs.min_score = -5
    /\ \E rec \in ReturnedRecords : rec.score = -3 /\ ResultOf(rec).distance = 13

-----------------------------------------------------------------------------
(* The analytics recorder: properties *)

\* the document the last call started from, and the one it left in the file
DocBefore == LoadMetrics(fileBefore)
DocAfter == analyticsFile.doc

\* a counter of an intent table, 0 when the table has none
CountOf(counts, key) == IF key \in DOMAIN counts THEN counts[key] ELSE 0

\* the intent of each message of RecordMessages
IntentOfMessage ==
    IF recordArgs.message = MsgInvoice THEN "billing"
    ELSE IF recordArgs.message = MsgInstall THEN "usage"
    ELSE "other"

\* the increments the last call asks for
FallbackStep == IF recordArgs.fallback_used THEN 1 ELSE 0
TimeStep == IF recordArgs.response_time_ms = JNull THEN 0 ELSE recordArgs.response_time_ms.n
IntentStep(k) == IF k = IntentOfMessage THEN 1 ELSE 0

\* the tenant bucket the last call is booked under
BucketKey ==
    IF recordArgs.tenant_id = JNull \/ recordArgs.tenant_id = JStr("") THEN "default"
    ELSE recordArgs.tenant_id.s

AllIntents == {"billing", "deployment", "usage", "support", "other"}

\* the last call started from a file that is absent, unparseable, or holds a
\* metrics document
CalledOnMetricsDocument ==
    /\ recordCount >= 1
    /\ fileBefore.state \in {"absent", "garbage", "empty_object", "ok"}

\* C18: a call of record_support_interaction changes the persisted metrics by
\* exactly total_queries + 1, fallback_count + 1 iff fallback_used,
\* total_response_time_ms + response_time_ms (0 if absent), the matched
\* intent's counter + 1, and the same in the tenant bucket keyed by tenant_id
\* ("default" when absent), created zeroed if missing; nothing else changes
\* and the returned document is the persisted one.
C18_RecordIncrementsExactly ==
    CalledOnMetricsDocument =>
        /\ recordOutcome.kind = "returned"
        /\ analyticsFile.state = "ok"
        /\ recordOutcome.doc = DocAfter
        /\ DocAfter.total_queries = DocBefore.total_queries + 1
        /\ DocAfter.fallback_count = DocBefore.fallback_count + FallbackStep
        /\ DocAfter.total_response_time_ms = DocBefore.total_response_time_ms + TimeStep
        /\ \A k \in AllIntents \cup DOMAIN DocAfter.intent_counts :
              CountOf(DocAfter.intent_counts, k) =
                  CountOf(DocBefore.intent_counts, k) + IntentStep(k)
        /\ DOMAIN DocAfter.tenant_breakdown = DOMAIN DocBefore.tenant_breakdown \cup {BucketKey}
        /\ \A key \in DOMAIN DocBefore.tenant_breakdown \ {BucketKey} :
              DocAfter.tenant_breakdown[key] = DocBefore.tenant_breakdown[key]
        /\ LET old == BucketOf(DocBefore, BucketKey)
               new == DocAfter.tenant_breakdown[BucketKey]
           IN  /\ new.queries = old.queries + 1
               /\ new.fallbacks = old.fallbacks + FallbackStep
               /\ new.total_response_time_ms = old.total_response_time_ms + TimeStep
               /\ \A k \in AllIntents \cup DOMAIN new.intent_counts :
                     CountOf(new.intent_counts, k) = CountOf(old.intent_counts, k) + IntentStep(k)

\* a second billing message of tenant acme, after a first one: both counters
\* of the intent at 2, the bucket "default" absent
C18_Witness ==
    /\ recordCount = 2
    /\ recordOutcome.kind = "returned"
    /\ recordArgs.tenant_id = JStr("acme")
    /\ recordArgs.fallback_used
    /\ DocBefore.total_queries = 1
    /\ DocAfter.intent_counts = [billing |-> 2]
    /\ DOMAIN DocAfter.tenant_breakdown = {"acme"}
    /\ DocAfter.tenant_breakdown["acme"].intent_counts = [billing |-> 2]
    /\ DocAfter.total_response_time_ms = 4

\* C19: whatever the analytics file contains (missing, truncated,
\* unparseable, or parseable but not a well-shaped metrics document),
\* record_support_interaction completes without failing, and when the file
\* was absent or corrupt the result has total_queries = 1 and fallback_count
\* 1 or 0 according to fallback_used.
C19_CorruptFileNeverFatal ==
    recordCount >= 1 =>
        /\ recordOutcome.kind = "returned"
        /\ fileBefore.state # "ok" =>
              /\ recordOutcome.doc.total_queries = 1
              /\ recordOutcome.doc.fallback_count = FallbackStep

-----------------------------------------------------------------------------
(* categorize_intent: properties *)

\* some keyword of the intent occurs in the lower-cased message
KeywordHit(name) ==
    \E keyword \in INTENT_KEYWORDS[name] : Contains(LowerStr(intentMessage), keyword)

\* C20: categorize_intent returns the first intent, in the order billing,
\* deployment, usage, support, one of whose keywords occurs in the message
\* regardless of case, and "other" when none does; "How do I install the
\* CLI?" gives "usage", "My invoice is wrong" gives "billing" and
\* "asdf qwerty" gives "other".
C20_FirstMatchingIntentWins ==
    cipc = "returned" =>
        /\ intentResult = "billing" <=> KeywordHit("billing")
        /\ intentResult = "deployment" <=> (~KeywordHit("billing") /\ KeywordHit("deployment"))
        /\ intentResult = "usage" <=>
              (~KeywordHit("billing") /\ ~KeywordHit("deployment") /\ KeywordHit("usage"))
        /\ intentResult = "support" <=>
              (~KeywordHit("billing") /\ ~KeywordHit("deployment") /\ ~KeywordHit("usage")
                  /\ KeywordHit("support"))
        /\ intentResult = "other" <=>
              (~KeywordHit("billing") /\ ~KeywordHit("deployment") /\ ~KeywordHit("usage")
                  /\ ~KeywordHit("support"))
        /\ intentMessage = MsgInstall => intentResult = "usage"
        /\ intentMessage = MsgInvoice => intentResult = "billing"
        /\ intentMessage = MsgOther => intentResult = "other"
        /\ intentMessage = <<"d", "o", "c", "k", "E", "R">> => intentResult = "deployment"
        /\ intentMessage = <<"H", "e", "l", "p", " ", "D", "e", "p", "l", "o", "y">> =>
              intentResult = "deployment"

\* a message with a support and a usage keyword is classified "usage"
C20_Witness ==
    /\ cipc = "returned"
    /\ intentMessage = <<"H", "e", "l", "p", " ", "u", "s", "e">>
    /\ KeywordHit("support")
    /\ intentResult = "usage"

-----------------------------------------------------------------------------
(* The orchestrator: the order of its steps *)

\* the steps one invocation may take next; FAILED is the exit of an invocation
\* that ends in an error
StepsInOrder ==
    {<<"idle", "START">>, <<"DONE", "START">>, <<"FAILED", "START">>,
     <<"START", "CONFIG_RESOLVED">>, <<"START", "FAILED">>,
     <<"CONFIG_RESOLVED", "RETRIEVED">>,
     <<"RETRIEVED", "GENERATED">>, <<"RETRIEVED", "FALLBACK">>, <<"RETRIEVED", "FAILED">>,
     <<"GENERATED", "RECORDED">>, <<"FALLBACK", "RECORDED">>,
     <<"RECORDED", "DONE">>}

\* what a step has to find done, and what it does itself
StepTaken ==
    /\ <<fpc, fpc'>> \in StepsInOrder
    /\ fpc' = "START" =>
          /\ config' = NoConfig /\ docs' = <<>> /\ context_text' = <<>> /\ sources' = <<>>
          /\ ~fallback_used' /\ answer' = JNull /\ flowResult' = NoResult
          /\ generateCalls' = 0 /\ recordCalls' = 0
    /\ fpc' = "RETRIEVED" => config # NoConfig
    /\ generateCalls' > generateCalls => (fpc = "RETRIEVED" /\ config # NoConfig)
    /\ fpc' = "GENERATED" => (generateCalls' = 1 /\ ~fallback_used' /\ answer' # JNull)
    /\ fpc' = "FALLBACK" => (generateCalls' = 0 /\ fallback_used' /\ answer' = config.fallback)
    /\ recordCalls' > recordCalls =>
          (fpc \in {"GENERATED", "FALLBACK"} /\ fpc' = "RECORDED" /\ recordCalls' = 1
              /\ answer # JNull)
    /\ metricsFile' # metricsFile => recordCalls' > recordCalls
    /\ fpc' = "DONE" => (recordCalls = 1 /\ flowResult'.kind = "returned")

\* C25: an invocation of run_support_bot_flow takes its steps in the order
\* START, CONFIG_RESOLVED, RETRIEVED, one of GENERATED or FALLBACK, RECORDED,
\* DONE: no retrieval before the configuration is resolved, no generation
\* before retrieval returned, no record before the answer is determined, and
\* the next invocation starts with none of the locals of the one before.
C25_StepsInFixedOrder == [][fpc' # fpc => StepTaken]_vars

\* a second invocation done through the fallback branch after a first one done
\* through generation
C25_Witness ==
    /\ calls = 2
    /\ fpc = "DONE"
    /\ fallback_used
    /\ generateCalls = 0
    /\ recordCalls = 1
    /\ metricsFile.doc.total_queries = 2
    /\ metricsFile.doc.fallback_count = 1

\* C30: when generation fails inside run_support_bot_flow, that invocation
\* leaves the analytics store as it found it: nothing is recorded, and
\* total_queries, fallback_count, the intent counts and every tenant bucket
\* keep their values.
C30_FailedGenerationRecordsNothing ==
    (generateCalls = 1 /\ ~generateOutcome.ok) =>
        /\ recordCalls = 0
        /\ metricsFile = metricsBefore
        /\ LoadMetrics(metricsFile).total_queries = LoadMetrics(metricsBefore).total_queries
        /\ LoadMetrics(metricsFile).fallback_count = LoadMetrics(metricsBefore).fallback_count
        /\ LoadMetrics(metricsFile).intent_counts = LoadMetrics(metricsBefore).intent_counts
        /\ LoadMetrics(metricsFile).tenant_breakdown = LoadMetrics(metricsBefore).tenant_breakdown

\* generation failed in the second invocation; the store holds the record of
\* the first and nothing more
C30_Witness ==
    /\ calls = 2
    /\ fpc = "FAILED"
    /\ generateCalls = 1
    /\ ~generateOutcome.ok
    /\ metricsFile.state = "ok"
    /\ metricsFile.doc.total_queries = 1

-----------------------------------------------------------------------------
(* chunk_text: progress and chunk length *)

\* the start offset that followed the i-th iteration
StartAfter(i) == IF i < Len(visited) THEN visited[i + 1] ELSE start

\* C26: for every chunk_size >= 1 and overlap, overlap >= chunk_size included,
\* every iteration of the carve loop has end > start, and the next start
\* offset is strictly greater than the current one and never negative.
C26_CarveLoopMovesForward ==
    (cpc \in {"loop", "returned"} /\ chunk_size >= 1) =>
        \A i \in 1..Len(visited) :
            /\ CarveEnd(text, visited[i], chunk_size) > visited[i]
            /\ StartAfter(i) > visited[i]
            /\ StartAfter(i) >= 0

\* C27: for every text, chunk_size >= 1 and overlap, every chunk chunk_text
\* returns has at most chunk_size characters, and for a text longer than
\* chunk_size every chunk is non-empty and has no whitespace at either end.
C27_ChunkSizeIsAMaximum ==
    (cpc \in {"loop", "returned"} /\ chunk_size >= 1) =>
        \A i \in 1..Len(chunks) :
            /\ Len(chunks[i]) <= chunk_size
            /\ Len(text) > chunk_size =>
                  /\ chunks[i] # <<>>
                  /\ ~IsSpace(chunks[i][1])
                  /\ ~IsSpace(chunks[i][Len(chunks[i])])

\* a text carved into a full-size chunk and a chunk that lost whitespace to
\* strip()
C27_Witness ==
    /\ cpc = "returned"
    /\ Len(text) > chunk_size
    /\ Len(chunks) >= 2
    /\ \E i \in 1..Len(chunks) : Len(chunks[i]) = chunk_size
    /\ \E i \in 1..Len(visited) :
          LET piece == Slice(text, visited[i], CarveEnd(text, visited[i], chunk_size))
          IN  piece # <<>> /\ Strip(piece) # piece /\ Strip(piece) # <<>>

-----------------------------------------------------------------------------
(* The analytics document: its sums *)

RECURSIVE SumOver(_, _)
\* the sum of f over the keys in S
SumOver(f, S) ==
    IF S = {} THEN 0
    ELSE LET k == CHOOSE x \in S : TRUE IN f[k] + SumOver(f, S \ {k})

\* the sum of all counters of an intent table
TotalOf(counts) == SumOver(counts, DOMAIN counts)

\* the buckets of the persisted document
Buckets == analyticsFile.doc.tenant_breakdown

\* C28: after any number of sequential record_support_interaction calls that
\* started from an absent analytics file, the persisted document has
\* total_queries = number of calls = sum of intent_counts = sum of the
\* tenants' queries, fallback_count = sum of the tenants' fallbacks <=
\* total_queries, in every bucket queries = sum of its intent_counts and
\* fallbacks <= queries, and the last call left every other tenant's bucket
\* as it was.
C28_DocumentSumsAgree ==
    /\ analyticsFile.state = "absent" => recordCount = 0
    /\ analyticsFile.state = "ok" =>
          /\ analyticsFile.doc.total_queries = recordCount
          /\ TotalOf(analyticsFile.doc.intent_counts) = recordCount
          /\ SumOver([k \in DOMAIN Buckets |-> Buckets[k].queries], DOMAIN Buckets) = recordCount
          /\ SumOver([k \in DOMAIN Buckets |-> Buckets[k].fallbacks], DOMAIN Buckets)
                 = analyticsFile.doc.fallback_count
          /\ analyticsFile.doc.fallback_count <= analyticsFile.doc.total_queries
          /\ \A k \in DOMAIN Buckets :
                /\ Buckets[k].queries = TotalOf(Buckets[k].intent_counts)
                /\ Buckets[k].fallbacks <= Buckets[k].queries
          /\ \A k \in DOMAIN Buckets :
                k # TenantOrDefault(recordArgs.tenant_id).s =>
                    /\ k \in DOMAIN LoadMetrics(fileBefore).tenant_breakdown
                    /\ Buckets[k] = LoadMetrics(fileBefore).tenant_breakdown[k]

\* two calls from an absent file, the first for acme with a fallback, the
\* second without a tenant: two buckets of one query each
C28_Witness ==
    /\ recordCount = 2
    /\ analyticsFile.state = "ok"
    /\ fileBefore.state = "ok"
    /\ DOMAIN Buckets = {"acme", "default"}
    /\ Buckets["acme"].fallbacks = 1
    /\ Buckets["default"].fallbacks = 0
    /\ analyticsFile.doc.fallback_count = 1
    /\ recordArgs.tenant_id = JNull

-----------------------------------------------------------------------------
(* Two concurrent recorder calls: properties *)

\* both calls are complete, and both loaded before either began to save
BothLoadedBeforeEitherSaved ==
    /\ \A p \in RaceProcs : racePc[p] = "done"
    /\ \A p \in RaceProcs : raceEarly[p]

\* total_queries of the document both callers loaded
QueriesLoaded == LoadMetrics(raceLoaded[1]).total_queries

\* C21 as stated: when both calls load the document before either saves, the
\* document persisted after both complete is the last writer's alone, with
\* total_queries grown by 1 rather than 2.
C21_LastWriterWins ==
    BothLoadedBeforeEitherSaved =>
        /\ raceFile = SavedFile(racePending[raceLast])
        /\ raceFile.doc.total_queries = QueriesLoaded + 1

\* C21, amended: when both calls load the document before either saves, what
\* both loaded is the same file, and the file left after both complete is
\* either the last writer's document alone, with total_queries grown by 1
\* and nothing of the other call in it, or, when the two writes overlapped,
\* unparseable; it never holds both updates.
C21_UpdateLostOrFileCorrupt ==
    BothLoadedBeforeEitherSaved =>
        /\ raceLoaded[1] = raceLoaded[2]
        /\ raceFile \in {SavedFile(racePending[raceLast]), GarbageFile}
        /\ \A p \in RaceProcs : racePending[p].total_queries = QueriesLoaded + 1
        /\ raceFile.state = "ok" =>
              /\ raceFile.doc.total_queries = QueriesLoaded + 1
              /\ raceFile.doc =
                     RecordSupportInteraction(raceLoaded[raceLast], raceArgs[raceLast].message,
                         raceArgs[raceLast].fallback_used, raceArgs[raceLast].tenant_id,
                         raceArgs[raceLast].response_time_ms)
        /\ LoadMetrics(raceFile).total_queries # QueriesLoaded + 2

\* both callers loaded a file of one record, caller 1 saved for acme, caller
\* 2 saved last without a tenant: the file counts two queries, not three, and
\* has no bucket for acme
C21_Witness ==
    /\ BothLoadedBeforeEitherSaved
    /\ raceLoaded[1] = OneRecordFile
    /\ raceArgs[1].tenant_id = JStr("acme")
    /\ raceArgs[2].tenant_id = JNull
    /\ raceLast = 2
    /\ raceFile.state = "ok"
    /\ raceFile.doc.total_queries = 2
    /\ DOMAIN raceFile.doc.tenant_breakdown = {"default"}

-----------------------------------------------------------------------------
(* get_collection: the handle returned *)

\* C29: get_collection(name) returns a handle to the collection named name,
\* after any sequence of get_collection and reset_collection calls and under
\* any interleaving with a concurrent call for another name.
C29_HandleIsOfRequestedCollection ==
    \A t \in HandleThreads :
        (handlePc[t] = "done" /\ handleCall[t].function = "get_collection") =>
            handleResult[t] = handleCall[t].collection_name

-----------------------------------------------------------------------------
(* LLMClient.generate: properties *)

\* the attempts before the last one
EarlierAttempts == 1..(Len(attemptLog) - 1)

\* C22: generate makes at most 3 attempts, returns the text of the first
\* attempt that succeeds and makes no attempt after it, and when all attempts
\* fail it raises LLMClientError to its caller.
C22_BoundedRetry ==
    /\ Len(attemptLog) <= 3
    /\ gpc = "attempting" => (Len(attemptLog) < 3 /\ \A i \in 1..Len(attemptLog) : ~attemptLog[i].ok)
    /\ gpc = "returned" =>
          /\ attemptLog # <<>>
          /\ attemptLog[Len(attemptLog)].ok
          /\ \A i \in EarlierAttempts : ~attemptLog[i].ok
          /\ generateResult.kind = "returned"
          /\ generateResult.text = attemptLog[Len(attemptLog)].text
    /\ gpc = "raised" =>
          /\ Len(attemptLog) = 3
          /\ \A i \in 1..3 : ~attemptLog[i].ok
          /\ generateResult.kind = "raised"
          /\ generateResult.error.type = "LLMClientError"
          /\ generateResult.error.cause = attemptLog[3].error.cause
    /\ (\E i \in 1..Len(attemptLog) : attemptLog[i].ok) => gpc = "returned"

\* two failed attempts, then the third returns its text
C22_Witness ==
    /\ gpc = "returned"
    /\ Len(attemptLog) = 3
    /\ ~attemptLog[1].ok /\ ~attemptLog[2].ok
    /\ attemptLog[1].error.cause = "timeout"
    /\ generateResult = GenerateReturned("answer two")

-----------------------------------------------------------------------------
(* The chat endpoints: properties *)

\* s is empty or made of whitespace only
OnlyWhitespace(s) == \A i \in 1..Len(s) : s[i] \in {" ", "\n", "\t", "\r"}

\* the request being served has an empty or whitespace-only message, or, on
\* the support bot's endpoint, such a user_id
RequestIsInvalid ==
    /\ httpRequest.endpoint \in Endpoints
    /\ \/ OnlyWhitespace(httpRequest.message)
       \/ httpRequest.endpoint = "/support-bot/query" /\ OnlyWhitespace(httpRequest.user_id)

\* C23: on /chat, /chat-with-retrieval and /support-bot/query a request whose
\* message is empty or whitespace-only (or, for the support bot, whose
\* user_id is) is answered 400 before any retrieval, generation or metrics
\* recording takes place.
C23_InvalidRequestRejectedFirst ==
    /\ RequestIsInvalid =>
          /\ spc = "responded"
          /\ httpResponse.status = 400
          /\ httpResponse.body = NoBody
          /\ handlerEffects = {}
          /\ calls = callsBefore
    /\ (spc = "responded" /\ httpResponse.status = 400) => RequestIsInvalid

\* a support-bot request with a message but a whitespace-only user_id,
\* rejected after an earlier request was served through the flow
C23_Witness ==
    /\ spc = "responded"
    /\ httpRequest.endpoint = "/support-bot/query"
    /\ httpRequest.message = MsgPadded
    /\ httpRequest.user_id = <<" ">>
    /\ httpResponse.status = 400
    /\ httpResponse.detail.text = "user_id is required"
    /\ calls = 1
    /\ callsBefore = 1
    /\ metricsFile.doc.total_queries = 1

\* generation failed with LLMClientError while the request was served
GenerationFailed ==
    IF httpRequest.endpoint = "/support-bot/query"
    THEN calls > callsBefore /\ generateCalls = 1 /\ ~generateOutcome.ok
    ELSE "generate_failed" \in handlerEffects

\* C24: when generation fails with LLMClientError the endpoint answers 5xx:
\* 500 with a detail containing "Failed to generate response" on /chat and
\* /chat-with-retrieval, 502 on /support-bot/query; never a success response
\* with a partial or fallback answer.
C24_GenerationFailureIsServerError ==
    (spc = "responded" /\ GenerationFailed) =>
        /\ httpResponse.status # 200
        /\ httpResponse.body = NoBody
        /\ httpRequest.endpoint \in {"/chat", "/chat-with-retrieval"} =>
              /\ httpResponse.status = 500
              /\ httpResponse.detail.text = "Failed to generate response"
              /\ httpResponse.detail.error \in
                     {"LLMClientError: Failed to generate response: timeout",
                      "LLMClientError: Failed to generate response: rate limit"}
        /\ httpRequest.endpoint = "/support-bot/query" =>
              /\ httpResponse.status = 502
              /\ httpResponse.detail.error = generateOutcome.error
              /\ recordCalls = 0

\* generate failed on the support bot's endpoint after documents were
\* retrieved: 502
C24_Witness ==
    /\ spc = "responded"
    /\ httpRequest.endpoint = "/support-bot/query"
    /\ docs # <<>>
    /\ generateCalls = 1
    /\ ~generateOutcome.ok
    /\ httpResponse.status = 502
=============================================================================
